---- MODULE Spec2Model ----
(***************************************************************************)
(* A model of cpptoml's parser and printer (cpptoml.h, the revision with   *)
(* table / table_array / array / value<T>).                                *)
(*                                                                         *)
(* Text is modelled character by character: a line is a sequence of        *)
(* one-character strings, an iterator is an index into the line and        *)
(* line_.end() is Len(line_) + 1.  Every parser function is an operator    *)
(* on a cursor record                                                      *)
(*     [input_, line_, line_number_, it, err]                              *)
(* where input_ is the unread part of the stream and err is the message    *)
(* of the parse_exception thrown so far ("" when none was thrown).         *)
(***************************************************************************)
EXTENDS Integers, Sequences, FiniteSets, TLC

(***************************************************************************)
(* Bounds of the model.                                                    *)
(***************************************************************************)
\* the number of physical lines a document of the model may have
MaxLines == 4

(***************************************************************************)
(* Characters.                                                             *)
(***************************************************************************)
\* what *it yields when it == line_.end(): the terminator of the std::string
NUL == "NUL"
\* the character '\b', which has no escape in a TLA+ string
BS == "BS"
\* the end of the stream, as an item of input_: std::getline returns false
EOF == <<"EOF">>

WS == {" ", "\t"}

is_number(c) == c \in {"0", "1", "2", "3", "4", "5", "6", "7", "8", "9"}

End(line) == Len(line) + 1

\* *it
CharAt(line, it) == IF it >= 1 /\ it <= Len(line) THEN line[it] ELSE NUL

Min(S) == CHOOSE p \in S : \A q \in S : p <= q

\* std::find_if(it, end, c \in S): the first position in [it, end) whose
\* character is in S, or end
FindIn(line, it, end, S) ==
    LET hits == {p \in it..(end - 1) : CharAt(line, p) \in S}
    IN  IF hits = {} THEN end ELSE Min(hits)

\* std::find_if_not(it, end, c \in S)
FindNotIn(line, it, end, S) ==
    LET hits == {p \in it..(end - 1) : CharAt(line, p) \notin S}
    IN  IF hits = {} THEN end ELSE Min(hits)

\* the characters of [from, to)
Slice(line, from, to) == [i \in 1..(to - from) |-> line[from + i - 1]]

consume_whitespace(line, it) == FindNotIn(line, it, End(line), WS)

\* while (back != front && *back is blank) --back
consume_backwards_whitespace(line, back, front) ==
    LET stops == {p \in front..back : p = front \/ CharAt(line, p) \notin WS}
    IN  CHOOSE p \in stops : \A q \in stops : q <= p

(***************************************************************************)
(* The value model.                                                        *)
(***************************************************************************)
EmptyMap == [k \in {} |-> 0]

Table(m) == [kind |-> "table", map_ |-> m]
TableArray(a) == [kind |-> "table_array", array_ |-> a]
Array(vs) == [kind |-> "array", values_ |-> vs]
Value(type, data) == [kind |-> "value", type |-> type, data_ |-> data]

EmptyTable == Table(EmptyMap)

is_value(b) == b.kind = "value"
is_table(b) == b.kind = "table"
is_array(b) == b.kind = "array"
is_table_array(b) == b.kind = "table_array"

\* base::as<T>(): the dynamic cast to value<T> succeeds
as(b, T) == b.kind = "value" /\ b.type = T

empty(t) == DOMAIN t.map_ = {}
contains(t, key) == key \in DOMAIN t.map_
get(t, key) == t.map_[key]

\* map_[key] = value
insert(t, key, value) ==
    Table([k \in DOMAIN t.map_ \cup {key} |->
              IF k = key THEN value ELSE t.map_[k]])

\* the null pointer
nullptr == [kind |-> "nullptr"]

\* get_table giving the last table of a table_array as well
get_table_or_last(t, key) ==
    IF contains(t, key) /\ is_table(get(t, key)) THEN get(t, key)
    ELSE IF contains(t, key) /\ is_table_array(get(t, key))
            /\ get(t, key).array_ # <<>>
    THEN get(t, key).array_[Len(get(t, key).array_)]
    ELSE nullptr

\* table::get_table(key)
get_table(t, key) ==
    IF contains(t, key) /\ is_table(get(t, key)) THEN get(t, key) ELSE nullptr

\* the loop of table::split: p is where value.find starts, q what it returns
\* (End(value) standing for npos)
RECURSIVE split_loop(_, _, _, _)
\* split taking one character too many for a part (q - p + 1)
split_found_long(value, separator, p, q, result) ==
    IF q # End(value)
    THEN split_loop(value, separator, q + 1,
                    Append(result, Slice(value, p, q + 1)))
    ELSE Append(result, Slice(value, p, End(value)))

split_found(value, separator, p, q, result) ==
    IF q # End(value)
    THEN split_loop(value, separator, q + 1, Append(result, Slice(value, p, q)))
    ELSE Append(result, Slice(value, p, End(value)))

split_loop(value, separator, p, result) ==
    split_found(value, separator, p, FindIn(value, p, End(value), {separator}),
                result)

\* table::split(value, separator)
split(value, separator) == split_loop(value, separator, 1, <<>>)

\* the loop of resolve_qualified over the parts before the last: the table
\* reached, nullptr when a part is not bound to a table
RECURSIVE resolve_walk(_, _)
resolve_step(table, parts) ==
    IF table.kind = "nullptr" THEN table ELSE resolve_walk(table, Tail(parts))

resolve_walk(table, parts) ==
    IF parts = <<>> THEN table
    ELSE resolve_step(get_table(table, Head(parts)), parts)

\* the end of resolve_qualified, table being what the loop reached; the
\* result is what it returns (ret), what it throws (err) and what it
\* stores to *p
resolve_last(table, last_key, has_p) ==
    IF table.kind = "nullptr"
    THEN IF ~has_p THEN [ret |-> FALSE, err |-> "", p |-> nullptr]
         ELSE [ret |-> FALSE, err |-> "std::out_of_range", p |-> nullptr]
    ELSE IF ~has_p
    THEN [ret |-> last_key \in DOMAIN table.map_, err |-> "", p |-> nullptr]
    ELSE IF last_key \in DOMAIN table.map_
    THEN [ret |-> TRUE, err |-> "", p |-> table.map_[last_key]]
    ELSE [ret |-> FALSE, err |-> "std::out_of_range", p |-> nullptr]

resolve_parts(t, parts, has_p) ==
    resolve_last(resolve_walk(t, SubSeq(parts, 1, Len(parts) - 1)),
                 parts[Len(parts)], has_p)

\* table::resolve_qualified(key, p), has_p telling whether p is given
resolve_qualified(t, key, has_p) == resolve_parts(t, split(key, "."), has_p)

\* table::contains_qualified(key)
contains_qualified(t, key) == resolve_qualified(t, key, FALSE)

\* table::get_qualified(key)
get_qualified(t, key) == resolve_qualified(t, key, TRUE)

(***************************************************************************)
(* curr_table is a pointer to a table of the tree.  It is modelled by the  *)
(* path from the root to that table: a sequence of steps <<key, idx>>,     *)
(* idx = 0 for the table bound to key and idx = i > 0 for the i-th element *)
(* of the table_array bound to key.                                        *)
(***************************************************************************)
RECURSIVE Deref(_, _)
Deref(root, path) ==
    IF path = <<>> THEN root
    ELSE LET b == root.map_[path[1][1]]
             t == IF path[1][2] = 0 THEN b ELSE b.array_[path[1][2]]
         IN  Deref(t, Tail(path))

\* the tree with the table curr_table points to replaced by t
RECURSIVE Store(_, _, _)
Store(root, path, t) ==
    IF path = <<>> THEN t
    ELSE LET key == path[1][1]
             idx == path[1][2]
             b == root.map_[key]
             nb == IF idx = 0 THEN Store(b, Tail(path), t)
                   ELSE TableArray([b.array_ EXCEPT
                                       ![idx] = Store(b.array_[idx], Tail(path), t)])
         IN  Table([root.map_ EXCEPT ![key] = nb])

(***************************************************************************)
(* The cursor of the parser: the stream, the line buffer, the line number  *)
(* and the iterator `it`.  The iterator `end` of the source is always      *)
(* line_.end(), that is End(c.line_).  starved is set when the parser      *)
(* asks for a line beyond the part of the stream the model supplied.       *)
(* before is the byte the memory holds in front of line_.begin() and after *)
(* the first byte that is not a blank behind the terminator of line_,      *)
(* which only a read outside the buffer sees.                              *)
(***************************************************************************)
Cursor(input, line, n, it) ==
    [input_ |-> input, line_ |-> line, line_number_ |-> n, it |-> it,
     err |-> "", starved |-> FALSE, before |-> NUL, after |-> NUL]

\* what a build may hold behind the buffer: a '#' or another byte
BytesAfter == {"#", NUL}

\* what a build may hold in front of the buffer: a blank or another byte
BytesBefore == {" ", NUL}

At(c) == CharAt(c.line_, c.it)
AtEnd(c) == c.it = End(c.line_)
Failed(c) == c.err # "" \/ c.starved

\* throw parse_exception{err, line_number_}
throw_parse_exception(c, msg) == [c EXCEPT !.err = msg]

\* std::getline(input_, line_)
getline(c) ==
    IF c.input_ = <<>> THEN [ok |-> FALSE, c |-> [c EXCEPT !.starved = TRUE]]
    ELSE IF Head(c.input_) = EOF THEN [ok |-> FALSE, c |-> c]
    ELSE [ok |-> TRUE,
          c |-> [c EXCEPT !.line_ = Head(c.input_), !.input_ = Tail(c.input_)]]

\* a function's result: the cursor it leaves and the value it returns
Ret(c, v) == [c |-> c, v |-> v]

(***************************************************************************)
(* A parse_exception is modelled by its message, the variable parts (key    *)
(* and table names) left out.                                              *)
(***************************************************************************)
\* the behaviour is undefined: the source reads or moves an iterator outside
\* [line_.begin(), line_.end()]
ErrUndefined == "undefined behaviour"

(***************************************************************************)
(* Escapes and string literals.                                            *)
(***************************************************************************)
EscapeOf(ch) ==
    CASE ch = "b" -> BS
      [] ch = "t" -> "\t"
      [] ch = "n" -> "\n"
      [] ch = "f" -> "\f"
      [] ch = "r" -> "\r"
      [] ch = "\"" -> "\""
      [] ch = "\\" -> "\\"

\* c.it is at the backslash; the result's v is the decoded character
parse_escape_code(c) ==
    LET c1 == [c EXCEPT !.it = c.it + 1]
    IN  IF AtEnd(c1) THEN Ret(throw_parse_exception(c1, "Invalid escape sequence"), NUL)
        ELSE IF At(c1) \in {"b", "t", "n", "f", "r", "\"", "\\"}
             THEN Ret([c1 EXCEPT !.it = c1.it + 1], EscapeOf(At(c1)))
             ELSE Ret(throw_parse_exception(c1, "Invalid escape sequence"), NUL)

\* the escape decoded, string_literal appends it to val and goes on
RECURSIVE string_literal_loop(_, _, _)
string_literal_escape(e, delim, val) ==
    IF Failed(e.c) THEN Ret(e.c, val)
    ELSE string_literal_loop(e.c, delim, Append(val, e.v))

\* the loop of string_literal, val being the characters decoded so far
string_literal_loop(c, delim, val) ==
    IF AtEnd(c) THEN Ret(throw_parse_exception(c, "Unterminated string literal"), val)
    ELSE IF delim = "\"" /\ At(c) = "\\"
         THEN string_literal_escape(parse_escape_code(c), delim, val)
    ELSE IF At(c) = delim
         THEN Ret([c EXCEPT !.it = consume_whitespace(c.line_, c.it + 1)], val)
    ELSE string_literal_loop([c EXCEPT !.it = c.it + 1], delim, Append(val, At(c)))

\* c.it is at the opening delimiter
string_literal(c, delim) ==
    string_literal_loop([c EXCEPT !.it = c.it + 1], delim, <<>>)

(***************************************************************************)
(* Keys.                                                                   *)
(***************************************************************************)
\* parse_bare_key(it, end) with end = bke, the terminator found by parse_key
parse_bare_key(c, bke) ==
    LET back == bke - 1
        key_end == consume_backwards_whitespace(c.line_, back, c.it) + 1
        key == Slice(c.line_, c.it, key_end)
        chars == {key[i] : i \in 1..Len(key)}
    IN  IF bke = c.it
        THEN \* an empty range: --key_end leaves [it, end); at the start of
             \* the line it leaves the buffer, and the key is empty when the
             \* character before it is not blank
             IF (IF c.it = 1 THEN c.before ELSE CharAt(c.line_, c.it - 1)) \in WS
             THEN Ret(throw_parse_exception(c, ErrUndefined), <<>>)
             ELSE Ret(c, <<>>)
        ELSE IF "#" \in chars
             THEN Ret(throw_parse_exception(c, "Bare key cannot contain #"), key)
        ELSE IF chars \cap WS # {}
             THEN Ret(throw_parse_exception(c, "Bare key cannot contain whitespace"), key)
        ELSE IF chars \cap {"[", "]"} # {}
             THEN Ret(throw_parse_exception(c, "Bare key cannot contain '[' or ']'"), key)
        ELSE Ret([c EXCEPT !.it = bke], key)

parse_quoted_key(c) == string_literal(c, "\"")

\* parse_key(it, end, fun) with fun(ch) == ch \in terminators
parse_key(c, terminators) ==
    LET c1 == [c EXCEPT !.it = consume_whitespace(c.line_, c.it)]
    IN  IF At(c1) = "\""
        THEN parse_quoted_key(c1)
        ELSE parse_bare_key(c1, FindIn(c1.line_, c1.it, End(c1.line_), terminators))

\* eol_or_comment(it, end)
eol_or_comment(c) ==
    IF ~AtEnd(c) /\ At(c) # "#" THEN throw_parse_exception(c, "Unidentified trailing character") ELSE c

(***************************************************************************)
(* Numbers.  An int64_t is kept as its sign and its decimal digits without *)
(* leading zeros, a double as the exact decimal value of its literal:      *)
(* (-1)^neg * digits * 10^exp, digits without leading or trailing zeros.   *)
(***************************************************************************)
DigitVal(ch) ==
    CASE ch = "0" -> 0 [] ch = "1" -> 1 [] ch = "2" -> 2 [] ch = "3" -> 3
      [] ch = "4" -> 4 [] ch = "5" -> 5 [] ch = "6" -> 6 [] ch = "7" -> 7
      [] ch = "8" -> 8 [] ch = "9" -> 9

\* v.erase(std::remove(v.begin(), v.end(), '_'), v.end())
RemoveUnderscores(v) == SelectSeq(v, LAMBDA ch : ch # "_")

RECURSIVE StripLeadingZeros(_)
StripLeadingZeros(ds) ==
    IF ds # <<>> /\ Head(ds) = "0" THEN StripLeadingZeros(Tail(ds)) ELSE ds

RECURSIVE StripTrailingZeros(_)
StripTrailingZeros(ds) ==
    IF ds # <<>> /\ ds[Len(ds)] = "0"
    THEN StripTrailingZeros(SubSeq(ds, 1, Len(ds) - 1)) ELSE ds

\* a <= b for digit sequences without leading zeros
DigitsLeq(a, b) ==
    \/ Len(a) < Len(b)
    \/ /\ Len(a) = Len(b)
       /\ LET diff == {i \in 1..Len(a) : a[i] # b[i]}
          IN  diff = {} \/ DigitVal(a[Min(diff)]) < DigitVal(b[Min(diff)])

\* the digits of 2^63 - 1 and of 2^63
INT64_MAX ==
    <<"9","2","2","3","3","7","2","0","3","6","8","5","4","7","7","5","8","0","7">>
INT64_MIN_MAG ==
    <<"9","2","2","3","3","7","2","0","3","6","8","5","4","7","7","5","8","0","8">>

IntData(neg, mag) ==
    [neg |-> neg /\ mag # <<>>, mag |-> IF mag = <<>> THEN <<"0">> ELSE mag]

\* the value of a digit sequence, for the short ones of exponents and dates
RECURSIVE DigitsToNat(_)
DigitsToNat(ds) ==
    IF ds = <<>> THEN 0
    ELSE 10 * DigitsToNat(SubSeq(ds, 1, Len(ds) - 1)) + DigitVal(ds[Len(ds)])

\* [check_it, end) holds a sign
eat_sign(line, check_it) ==
    IF CharAt(line, check_it) \in {"-", "+"} THEN check_it + 1 ELSE check_it

\* the loop of eat_numbers: the position it stops at, 0 when it throws
RECURSIVE eat_numbers_loop(_, _)
\* the loop without the test of what follows a '_'
eat_numbers_loop_lenient(line, check_it) ==
    IF check_it # End(line) /\ is_number(CharAt(line, check_it))
    THEN LET n == check_it + 1
         IN  IF n # End(line) /\ CharAt(line, n) = "_"
             THEN eat_numbers_loop(line, n + 1)
             ELSE eat_numbers_loop(line, n)
    ELSE check_it

eat_numbers_loop(line, check_it) ==
    IF check_it # End(line) /\ is_number(CharAt(line, check_it))
    THEN LET n == check_it + 1
         IN  IF n # End(line) /\ CharAt(line, n) = "_"
             THEN IF n + 1 = End(line) \/ ~is_number(CharAt(line, n + 1))
                  THEN 0
                  ELSE eat_numbers_loop(line, n + 1)
             ELSE eat_numbers_loop(line, n)
    ELSE check_it

eat_numbers(line, beg) ==
    LET e == eat_numbers_loop(line, beg) IN IF e = beg THEN 0 ELSE e

\* the conversion without the out_of_range exception: the value is the end
\* of the range, as std::strtoll returns it
parse_int_saturating(c, to) ==
    LET v == RemoveUnderscores(Slice(c.line_, c.it, to))
        signed == v # <<>> /\ v[1] \in {"-", "+"}
        neg == v # <<>> /\ v[1] = "-"
        ds == IF signed THEN Tail(v) ELSE v
        mag == StripLeadingZeros(ds)
        c1 == [c EXCEPT !.it = to]
    IN  IF ds = <<>> \/ ~is_number(ds[1])
        THEN Ret(throw_parse_exception(c1, "Malformed number (invalid argument)"), EmptyTable)
        ELSE IF ~DigitsLeq(mag, IF neg THEN INT64_MIN_MAG ELSE INT64_MAX)
        THEN Ret(c1, Value("int64_t",
                           IntData(neg, IF neg THEN INT64_MIN_MAG ELSE INT64_MAX)))
        ELSE Ret(c1, Value("int64_t", IntData(neg, mag)))

\* parse_int(it, end) with end = to: std::stoll of the text without '_'
parse_int(c, to) ==
    LET v == RemoveUnderscores(Slice(c.line_, c.it, to))
        signed == v # <<>> /\ v[1] \in {"-", "+"}
        neg == v # <<>> /\ v[1] = "-"
        ds == IF signed THEN Tail(v) ELSE v
        mag == StripLeadingZeros(ds)
        c1 == [c EXCEPT !.it = to]
    IN  IF ds = <<>> \/ ~is_number(ds[1])
        THEN Ret(throw_parse_exception(c1, "Malformed number (invalid argument)"), EmptyTable)
        ELSE IF ~DigitsLeq(mag, IF neg THEN INT64_MIN_MAG ELSE INT64_MAX)
        THEN Ret(throw_parse_exception(c1, "Malformed number (out of range)"), EmptyTable)
        ELSE Ret(c1, Value("int64_t", IntData(neg, mag)))

\* the exact decimal value of  [sign] int [. frac] [(e|E) [sign] exp]
DoubleData(v) ==
    LET neg == v # <<>> /\ v[1] = "-"
        body == IF v # <<>> /\ v[1] \in {"-", "+"} THEN Tail(v) ELSE v
        epos == FindIn(body, 1, End(body), {"e", "E"})
        mant == SubSeq(body, 1, epos - 1)
        expo == SubSeq(body, epos + 1, Len(body))
        eneg == expo # <<>> /\ expo[1] = "-"
        edig == IF expo # <<>> /\ expo[1] \in {"-", "+"} THEN Tail(expo) ELSE expo
        X == IF eneg THEN 0 - DigitsToNat(edig) ELSE DigitsToNat(edig)
        dot == FindIn(mant, 1, End(mant), {"."})
        ipart == SubSeq(mant, 1, dot - 1)
        fpart == SubSeq(mant, dot + 1, Len(mant))
        all == StripLeadingZeros(ipart \o fpart)
        sig == StripTrailingZeros(all)
    IN  [neg |-> neg, digits |-> sig,
         exp |-> IF sig = <<>> THEN 0 ELSE X - Len(fpart) + (Len(all) - Len(sig))]

\* parse_float(it, end) with end = to: std::stold of the text without '_'
parse_float(c, to) ==
    LET v == RemoveUnderscores(Slice(c.line_, c.it, to))
    IN  Ret([c EXCEPT !.it = to], Value("double", DoubleData(v)))

parse_number(c) ==
    LET line == c.line_
        s0 == eat_sign(line, c.it)
        n1 == eat_numbers(line, s0)
        is_exp == CharAt(line, n1) \in {"e", "E"}
        d1 == n1 + 1
        s1 == IF is_exp THEN eat_sign(line, d1) ELSE d1
        n2 == eat_numbers(line, s1)
        more == ~is_exp /\ CharAt(line, n2) \in {"e", "E"}
        n3 == eat_numbers(line, eat_sign(line, n2 + 1))
    IN  IF n1 = 0 THEN Ret(throw_parse_exception(c, "Malformed number"), EmptyTable)
        ELSE IF n1 # End(line) /\ CharAt(line, n1) \in {".", "e", "E"}
        THEN IF d1 = End(line)
             THEN Ret(throw_parse_exception(c, "Floats must have trailing digits"), EmptyTable)
             ELSE IF n2 = 0
             THEN Ret(throw_parse_exception(c, "Malformed number"), EmptyTable)
             ELSE IF more
             THEN IF n3 = 0
                  THEN Ret(throw_parse_exception(c, "Malformed number"), EmptyTable)
                  ELSE parse_float(c, n3)
             ELSE parse_float(c, n2)
        ELSE parse_int(c, n1)

(***************************************************************************)
(* Booleans.                                                               *)
(***************************************************************************)
parse_bool(c) ==
    LET boolend == FindIn(c.line_, c.it, End(c.line_), {" ", "\t", "#"})
        v == Slice(c.line_, c.it, boolend)
        c1 == [c EXCEPT !.it = boolend]
    IN  IF v = <<"t", "r", "u", "e">> THEN Ret(c1, Value("bool", TRUE))
        ELSE IF v = <<"f", "a", "l", "s", "e">> THEN Ret(c1, Value("bool", FALSE))
        ELSE Ret(throw_parse_exception(c1, "Attempted to parse invalid boolean value"), EmptyTable)

(***************************************************************************)
(* Strings.                                                                *)
(***************************************************************************)
\* the while loop of handle_line; h = [c, ss, consuming, done]
RECURSIVE handle_line_loop(_, _)
\* ss << parse_escape_code(it, end), and the loop goes on
handle_line_escape(h, e, delim) ==
    IF Failed(e.c) THEN [h EXCEPT !.c = e.c]
    ELSE handle_line_loop([h EXCEPT !.c = e.c, !.ss = Append(h.ss, e.v)], delim)

handle_line_loop(h, delim) ==
    LET c == h.c
    IN  IF AtEnd(c) THEN h
        ELSE IF delim = "\"" /\ At(c) = "\\"
        THEN IF c.it + 1 = End(c.line_)
             THEN [h EXCEPT !.consuming = TRUE]
             ELSE handle_line_escape(h, parse_escape_code(c), delim)
        ELSE IF /\ End(c.line_) - c.it >= 3
                /\ CharAt(c.line_, c.it) = delim
                /\ CharAt(c.line_, c.it + 1) = delim
                /\ CharAt(c.line_, c.it + 2) = delim
        THEN [h EXCEPT !.c = [c EXCEPT !.it = c.it + 3], !.done = TRUE]
        ELSE handle_line_loop(
                 [h EXCEPT !.c = [c EXCEPT !.it = c.it + 1],
                           !.ss = Append(h.ss, At(c))], delim)

handle_line(h, delim) ==
    LET it1 == FindNotIn(h.c.line_, h.c.it, End(h.c.line_), WS)
    IN  IF h.consuming /\ it1 = End(h.c.line_)
        THEN [h EXCEPT !.c = [h.c EXCEPT !.it = it1]]
        ELSE handle_line_loop(
                 [h EXCEPT !.c = [h.c EXCEPT !.it = IF h.consuming THEN it1 ELSE h.c.it],
                           !.consuming = FALSE], delim)

\* the loop "start eating lines" of parse_multiline_string
RECURSIVE multiline_lines(_, _)
\* a line handled: the string is complete, or a line break is emitted
\* (unless a trailing backslash is consuming it) and the next line is read
multiline_next(h1, delim) ==
    IF Failed(h1.c) \/ h1.done THEN h1
    ELSE multiline_lines(
             IF h1.consuming THEN h1 ELSE [h1 EXCEPT !.ss = Append(h1.ss, "\n")],
             delim)

multiline_lines(h, delim) ==
    LET g == getline(h.c)
        c1 == [g.c EXCEPT !.line_number_ = g.c.line_number_ + 1, !.it = 1]
    IN  IF ~g.ok
        THEN IF g.c.starved THEN [h EXCEPT !.c = g.c]
             ELSE [h EXCEPT !.c = throw_parse_exception(g.c, "Unterminated multi-line basic string")]
        ELSE multiline_next(handle_line([h EXCEPT !.c = c1], delim), delim)

\* the rest of the opening line handled: no line break follows it
multiline_first(h0, delim) ==
    IF Failed(h0.c) \/ h0.done THEN h0 ELSE multiline_lines(h0, delim)

\* std::make_shared<value<std::string>>(ss.str())
StringOf(h) == Ret(h.c, Value("string", h.ss))

\* c.it is after the opening delimiters
parse_multiline_string(c, delim) ==
    StringOf(multiline_first(
                 handle_line([c |-> c, ss |-> <<>>, consuming |-> FALSE,
                              done |-> FALSE], delim),
                 delim))

\* std::make_shared<value<std::string>>(string_literal(it, end, delim))
StringValue(r) == Ret(r.c, Value("string", r.v))

parse_string(c) ==
    LET delim == At(c)
        line == c.line_
    IN  IF /\ c.it + 1 # End(line) /\ CharAt(line, c.it + 1) = delim
           /\ c.it + 2 # End(line) /\ CharAt(line, c.it + 2) = delim
        THEN parse_multiline_string([c EXCEPT !.it = c.it + 3], delim)
        ELSE StringValue(string_literal(c, delim))

(***************************************************************************)
(* Datetimes.                                                              *)
(***************************************************************************)
find_end_of_date(line, it, end) ==
    LET hits == {p \in it..(end - 1) :
                    /\ ~is_number(CharAt(line, p))
                    /\ CharAt(line, p) \notin {"T", "Z", ":", "-", "+", "."}}
    IN  IF hits = {} THEN end ELSE Min(hits)

\* is_date without CPPTOML_HAS_STD_REGEX: the approximate lookahead
is_date(line, it, end) ==
    LET date_end == find_end_of_date(line, it, end)
        to_match == Slice(line, it, date_end)
    IN  /\ Len(to_match) >= 20
        /\ to_match[5] = "-" /\ to_match[8] = "-" /\ to_match[11] = "T"
        /\ to_match[14] = ":" /\ to_match[17] = ":"

\* one step of parse_date; d = [it, ok, val]
\* eat(ch)
eat(line, date_end, d, ch) ==
    IF ~d.ok \/ d.it = date_end \/ CharAt(line, d.it) # ch
    THEN [d EXCEPT !.ok = FALSE]
    ELSE [d EXCEPT !.it = d.it + 1]

\* eat_digits(len)
eat_digits(line, date_end, d, len) ==
    LET ps == d.it..(d.it + len - 1)
    IN  IF ~d.ok \/ \E p \in ps : p >= date_end \/ ~is_number(CharAt(line, p))
        THEN [d EXCEPT !.ok = FALSE]
        ELSE [d EXCEPT !.it = d.it + len,
                       !.val = DigitsToNat(Slice(line, d.it, d.it + len))]

parse_date(c) ==
    LET line == c.line_
        date_end == find_end_of_date(line, c.it, End(line))
        y == eat_digits(line, date_end, [it |-> c.it, ok |-> TRUE, val |-> 0], 4)
        mo == eat_digits(line, date_end, eat(line, date_end, y, "-"), 2)
        da == eat_digits(line, date_end, eat(line, date_end, mo, "-"), 2)
        ho == eat_digits(line, date_end, eat(line, date_end, da, "T"), 2)
        mi == eat_digits(line, date_end, eat(line, date_end, ho, ":"), 2)
        se == eat_digits(line, date_end, eat(line, date_end, mi, ":"), 2)
        hasfrac == CharAt(line, se.it) = "."
        fend == IF hasfrac
                THEN FindNotIn(line, se.it + 1, date_end,
                               {"0", "1", "2", "3", "4", "5", "6", "7", "8", "9"})
                ELSE se.it
        micro == IF hasfrac THEN DigitsToNat(Slice(line, se.it + 1, fend)) ELSE 0
        sign == CharAt(line, fend)
        d0 == [it |-> fend + 1, ok |-> TRUE, val |-> 0]
        hoff == eat_digits(line, date_end, d0, 2)
        moff == eat_digits(line, date_end, eat(line, date_end, hoff, ":"), 2)
        last == IF sign \in {"+", "-"} THEN moff.it
                ELSE IF sign = "Z" THEN fend + 1 ELSE fend
        bad == Ret(throw_parse_exception(c, "Malformed date"), EmptyTable)
    IN  IF ~se.ok \/ fend = date_end THEN bad
        ELSE IF sign \in {"+", "-"} /\ ~moff.ok THEN bad
        ELSE IF last # date_end THEN bad
        ELSE Ret([c EXCEPT !.it = last],
                 Value("datetime",
                       [year |-> y.val, month |-> mo.val, day |-> da.val,
                        hour |-> ho.val, minute |-> mi.val, second |-> se.val,
                        microsecond |-> micro,
                        hour_offset |-> IF sign = "+" THEN hoff.val
                                        ELSE IF sign = "-" THEN 0 - hoff.val ELSE 0,
                        minute_offset |-> IF sign = "+" THEN moff.val
                                          ELSE IF sign = "-" THEN 0 - moff.val ELSE 0]))

(***************************************************************************)
(* Values: type dispatch, arrays, inline tables, key/value pairs.          *)
(***************************************************************************)
\* the loop of skip_whitespace_and_comments, c.it already past the blanks
RECURSIVE skip_loop(_)
\* the loop reading lines without counting them
skip_loop_uncounted(c) ==
    IF AtEnd(c) \/ At(c) = "#"
    THEN LET g == getline(c)
         IN  IF ~g.ok
             THEN IF g.c.starved THEN g.c
                  ELSE throw_parse_exception(g.c, "Unclosed array")
             ELSE skip_loop([g.c EXCEPT !.it = consume_whitespace(g.c.line_, 1)])
    ELSE c

skip_loop(c) ==
    IF AtEnd(c) \/ At(c) = "#"
    THEN LET g == getline(c)
         IN  IF ~g.ok
             THEN IF g.c.starved THEN g.c
                  ELSE throw_parse_exception(g.c, "Unclosed array")
             ELSE skip_loop([g.c EXCEPT !.line_number_ = g.c.line_number_ + 1,
                                        !.it = consume_whitespace(g.c.line_, 1)])
    ELSE c

skip_whitespace_and_comments(c) ==
    skip_loop([c EXCEPT !.it = consume_whitespace(c.line_, c.it)])

determine_number_type(line, it, end) ==
    LET s0 == IF CharAt(line, it) \in {"-", "+"} THEN it + 1 ELSE it
        n0 == FindNotIn(line, s0, end,
                        {"0", "1", "2", "3", "4", "5", "6", "7", "8", "9"})
    IN  IF n0 # end /\ CharAt(line, n0) = "." THEN "FLOAT" ELSE "INT"

\* the parse_type, or "" when it throws
determine_value_type(line, it, end) ==
    LET ch == CharAt(line, it)
    IN  IF ch \in {"\"", "'"} THEN "STRING"
        ELSE IF is_date(line, it, end) THEN "DATE"
        ELSE IF is_number(ch) \/ ch \in {"-", "+"}
             THEN determine_number_type(line, it, end)
        ELSE IF ch \in {"t", "f"} THEN "BOOL"
        ELSE IF ch = "[" THEN "ARRAY"
        ELSE IF ch = "{" THEN "INLINE_TABLE"
        ELSE ""

\* the element type parse_array instantiates parse_value_array with
ValueTypeOf(type) ==
    CASE type = "STRING" -> "string"
      [] type = "INT" -> "int64_t"
      [] type = "FLOAT" -> "double"
      [] type = "DATE" -> "datetime"

RECURSIVE parse_value(_)
RECURSIVE parse_array(_)
RECURSIVE parse_value_array_loop(_, _, _)
RECURSIVE parse_object_array_loop(_, _, _)
RECURSIVE parse_inline_table_loop(_, _)
RECURSIVE parse_key_value(_, _)

\* the end of parse_key_value: consume_whitespace and
\* curr_table->insert(key, value), r being the result of parse_value
key_value_insert(r, curr_table, key) ==
    IF Failed(r.c) THEN Ret(r.c, curr_table)
    ELSE Ret([r.c EXCEPT !.it = consume_whitespace(r.c.line_, r.c.it)],
             insert(curr_table, key, r.v))

\* parse_key_value without its test curr_table->contains(key): the value
\* replaces the one the key was bound to
key_value_of_overwrite(k, curr_table) ==
    IF Failed(k.c) THEN Ret(k.c, curr_table)
    ELSE IF At(k.c) # "="
    THEN Ret(throw_parse_exception(k.c, "Value must follow after a '='"), curr_table)
    ELSE key_value_insert(
             parse_value([k.c EXCEPT !.it = consume_whitespace(k.c.line_,
                                                               k.c.it + 1)]),
             curr_table, k.v)

\* parse_key_value after its call of parse_key, whose result is k
key_value_of(k, curr_table) ==
    IF Failed(k.c) THEN Ret(k.c, curr_table)
    ELSE IF contains(curr_table, k.v)
    THEN Ret(throw_parse_exception(k.c, "Key already present"), curr_table)
    ELSE IF At(k.c) # "="
    THEN Ret(throw_parse_exception(k.c, "Value must follow after a '='"), curr_table)
    ELSE key_value_insert(
             parse_value([k.c EXCEPT !.it = consume_whitespace(k.c.line_,
                                                               k.c.it + 1)]),
             curr_table, k.v)

\* parse_key_value(it, end, curr_table): the result's v is the table after
\* the insertion
parse_key_value(c, curr_table) == key_value_of(parse_key(c, {"="}), curr_table)

\* the condition of the do-while loop of parse_inline_table, r being the
\* result of parse_key_value
inline_table_next(r) ==
    LET c3 == [r.c EXCEPT !.it = consume_whitespace(r.c.line_, r.c.it)]
    IN  IF Failed(r.c) THEN r
        ELSE IF At(c3) = "," THEN parse_inline_table_loop(c3, r.v)
        ELSE Ret(c3, r.v)

\* the do-while loop of parse_inline_table, c.it at '{' or at ','
parse_inline_table_loop(c, tbl) ==
    LET c1 == [c EXCEPT !.it = c.it + 1]
        c2 == [c1 EXCEPT !.it = consume_whitespace(c1.line_, c1.it)]
    IN  IF AtEnd(c1) THEN Ret(throw_parse_exception(c1, "Unterminated inline table"), tbl)
        ELSE inline_table_next(parse_key_value(c2, tbl))

\* parse_inline_table after its loop
inline_table_close(r) ==
    IF Failed(r.c) THEN r
    ELSE IF AtEnd(r.c) \/ At(r.c) # "}"
    THEN Ret(throw_parse_exception(r.c, "Unterminated inline table"), r.v)
    ELSE Ret([r.c EXCEPT !.it = consume_whitespace(r.c.line_, r.c.it + 1)], r.v)

parse_inline_table(c) == inline_table_close(parse_inline_table_loop(c, EmptyTable))

\* the end of an iteration of parse_value_array: c1 is the cursor after
\* skip_whitespace_and_comments, arr holds the element just pushed
value_array_next(c1, T, arr) ==
    IF Failed(c1) \/ At(c1) # "," THEN Ret(c1, arr)
    ELSE parse_value_array_loop(
             skip_whitespace_and_comments([c1 EXCEPT !.it = c1.it + 1]), T, arr)

\* parse_value_array pushing the element whatever its type
value_array_push_unchecked(r, T, arr) ==
    IF Failed(r.c) THEN Ret(r.c, arr)
    ELSE value_array_next(skip_whitespace_and_comments(r.c), T, Append(arr, r.v))

\* the element parsed: if (auto v = val->as<Value>()) push_back, else throw
value_array_push(r, T, arr) ==
    IF Failed(r.c) THEN Ret(r.c, arr)
    ELSE IF ~as(r.v, T)
    THEN Ret(throw_parse_exception(r.c, "Arrays must be heterogeneous"), arr)
    ELSE value_array_next(skip_whitespace_and_comments(r.c), T, Append(arr, r.v))

\* the loop of parse_value_array<Value>; arr holds the elements pushed so far
parse_value_array_loop(c, T, arr) ==
    IF Failed(c) THEN Ret(c, arr)
    ELSE IF ~AtEnd(c) /\ At(c) # "]" THEN value_array_push(parse_value(c), T, arr)
    ELSE Ret(c, arr)

\* parse_value_array after its loop
value_array_close(r) ==
    IF Failed(r.c) THEN Ret(r.c, EmptyTable)
    ELSE Ret(IF ~AtEnd(r.c) THEN [r.c EXCEPT !.it = r.c.it + 1] ELSE r.c,
             Array(r.v))

parse_value_array(c, T) == value_array_close(parse_value_array_loop(c, T, <<>>))

\* the end of an iteration of parse_object_array
object_array_next(c1, delim, arr) ==
    IF Failed(c1) \/ At(c1) # "," THEN Ret(c1, arr)
    ELSE parse_object_array_loop(
             skip_whitespace_and_comments([c1 EXCEPT !.it = c1.it + 1]), delim, arr)

\* ary->push_back(((*this).*fun)(it, end)), r being the result of fun
object_array_push(r, delim, arr) ==
    IF Failed(r.c) THEN Ret(r.c, arr)
    ELSE object_array_next(skip_whitespace_and_comments(r.c), delim,
                           Append(arr, r.v))

\* the loop of parse_object_array; fun is parse_array when delim is '[' and
\* parse_inline_table when delim is '{'
parse_object_array_loop(c, delim, arr) ==
    IF Failed(c) THEN Ret(c, arr)
    ELSE IF ~AtEnd(c) /\ At(c) # "]"
    THEN IF At(c) # delim
         THEN Ret(throw_parse_exception(c, "Unexpected character in array"), arr)
         ELSE object_array_push(
                  IF delim = "[" THEN parse_array(c) ELSE parse_inline_table(c),
                  delim, arr)
    ELSE Ret(c, arr)

\* parse_object_array after its loop
object_array_close(r, delim) ==
    IF Failed(r.c) THEN Ret(r.c, EmptyTable)
    ELSE IF AtEnd(r.c) \/ At(r.c) # "]"
    THEN Ret(throw_parse_exception(r.c, "Unterminated array"), EmptyTable)
    ELSE Ret([r.c EXCEPT !.it = r.c.it + 1],
             IF delim = "[" THEN Array(r.v) ELSE TableArray(r.v))

\* parse_object_array<Object>: Object is array when delim is '[' and
\* table_array when delim is '{'
parse_object_array(c, delim) ==
    object_array_close(parse_object_array_loop(c, delim, <<>>), delim)

\* the switch of parse_array on the type of the first element
array_of_type(c1, type) ==
    IF type = ""
    THEN Ret(throw_parse_exception(c1, "Failed to parse value type"), EmptyTable)
    ELSE IF type \in {"STRING", "INT", "FLOAT", "DATE"}
    THEN parse_value_array(c1, ValueTypeOf(type))
    ELSE IF type = "ARRAY" THEN parse_object_array(c1, "[")
    ELSE IF type = "INLINE_TABLE" THEN parse_object_array(c1, "{")
    ELSE Ret(throw_parse_exception(c1, "Unable to parse array"), EmptyTable)

\* parse_array after skipping the '[' and what follows it up to the first
\* element
array_body(c1) ==
    IF Failed(c1) THEN Ret(c1, EmptyTable)
    ELSE IF At(c1) = "]" THEN Ret([c1 EXCEPT !.it = c1.it + 1], Array(<<>>))
    ELSE array_of_type(c1,
             determine_value_type(c1.line_, c1.it,
                 FindIn(c1.line_, c1.it, End(c1.line_), {",", "]", "#"})))

parse_array(c) == array_body(skip_whitespace_and_comments([c EXCEPT !.it = c.it + 1]))

\* the switch of parse_value
value_of_type(c, type) ==
    CASE type = "STRING" -> parse_string(c)
      [] type = "DATE" -> parse_date(c)
      [] type \in {"INT", "FLOAT"} -> parse_number(c)
      [] type = "BOOL" -> parse_bool(c)
      [] type = "ARRAY" -> parse_array(c)
      [] type = "INLINE_TABLE" -> parse_inline_table(c)
      [] type = "" -> Ret(throw_parse_exception(c, "Failed to parse value type"), EmptyTable)

parse_value(c) == value_of_type(c, determine_value_type(c.line_, c.it, End(c.line_)))

(***************************************************************************)
(* Headers.  A header function works on h = [c, root, curr_table,          *)
(* inserted]: the cursor, the tree, the pointer into it and the flag of    *)
(* parse_single_table.                                                     *)
(***************************************************************************)
HThrow(h, msg) == [h EXCEPT !.c = throw_parse_exception(h.c, msg)]

\* the descent taking the first element of a table_array (.front())
Descend_front(h, part) ==
    LET b == get(Deref(h.root, h.curr_table), part)
    IN  IF is_table(b)
        THEN [h EXCEPT !.curr_table = Append(h.curr_table, <<part, 0>>)]
        ELSE IF is_table_array(b)
        THEN IF b.array_ = <<>> THEN HThrow(h, ErrUndefined)
             ELSE [h EXCEPT !.curr_table = Append(h.curr_table, <<part, 1>>)]
        ELSE HThrow(h, "Key already exists as a value")

\* curr_table = the table bound to part, or the last element of the
\* table_array bound to part (.back())
Descend(h, part) ==
    LET b == get(Deref(h.root, h.curr_table), part)
    IN  IF is_table(b)
        THEN [h EXCEPT !.curr_table = Append(h.curr_table, <<part, 0>>)]
        ELSE IF is_table_array(b)
        THEN IF b.array_ = <<>> THEN HThrow(h, ErrUndefined)
             ELSE [h EXCEPT !.curr_table = Append(h.curr_table, <<part, Len(b.array_)>>)]
        ELSE HThrow(h, "Key already exists as a value")

\* curr_table->insert(part, std::make_shared<table>()), then down to it
InsertTable(h, part) ==
    [h EXCEPT !.root = Store(h.root, h.curr_table,
                             insert(Deref(h.root, h.curr_table), part, EmptyTable)),
              !.curr_table = Append(h.curr_table, <<part, 0>>),
              !.inserted = TRUE]

\* consume_whitespace; if (it != end && *it == '.') ++it; consume_whitespace
SkipDot(c) ==
    LET i1 == consume_whitespace(c.line_, c.it)
        i2 == IF i1 # End(c.line_) /\ CharAt(c.line_, i1) = "." THEN i1 + 1 ELSE i1
    IN  [c EXCEPT !.it = consume_whitespace(c.line_, i2)]

RECURSIVE single_table_loop(_)
\* the end of an iteration of the loop of parse_single_table
single_table_next(h2) ==
    IF Failed(h2.c) THEN h2
    ELSE single_table_loop([h2 EXCEPT !.c = SkipDot(h2.c)])

\* the iteration inserting a new table whether the part is bound or not
single_table_part_anew(h, k) ==
    IF Failed(k.c) THEN [h EXCEPT !.c = k.c]
    ELSE IF k.v = <<>> THEN HThrow([h EXCEPT !.c = k.c], "Empty component of table name")
    ELSE single_table_next(InsertTable([h EXCEPT !.c = k.c], k.v))

\* an iteration of the loop of parse_single_table after its call of
\* parse_key, whose result is k
single_table_part(h, k) ==
    IF Failed(k.c) THEN [h EXCEPT !.c = k.c]
    ELSE IF k.v = <<>> THEN HThrow([h EXCEPT !.c = k.c], "Empty component of table name")
    ELSE single_table_next(
             IF contains(Deref(h.root, h.curr_table), k.v)
             THEN Descend([h EXCEPT !.c = k.c], k.v)
             ELSE InsertTable([h EXCEPT !.c = k.c], k.v))

single_table_loop(h) ==
    IF ~AtEnd(h.c) /\ At(h.c) # "]"
    THEN single_table_part(h, parse_key(h.c, {".", "]"}))
    ELSE h

\* the test of parse_single_table with is_table in the place of is_value
Redefines_is_table(t) == empty(t) \/ \E k \in DOMAIN t.map_ : is_table(t.map_[k])

\* the test without curr_table->empty()
Redefines_any_value(t) == \E k \in DOMAIN t.map_ : is_value(t.map_[k])

\* the table the header names already existed: it may not be reopened when
\* it is empty or holds a value
Redefines(t) == empty(t) \/ \E k \in DOMAIN t.map_ : is_value(t.map_[k])

\* parse_single_table after its loop
single_table_close(h1) ==
    IF Failed(h1.c) THEN h1
    ELSE IF ~h1.inserted /\ Redefines(Deref(h1.root, h1.curr_table))
    THEN HThrow(h1, "Redefinition of table")
    ELSE IF AtEnd(h1.c)
    THEN \* ++it leaves the buffer: consume_whitespace and eol_or_comment
         \* read the bytes behind it
         IF h1.c.after = "#" THEN h1
         ELSE HThrow(h1, "Unidentified trailing character")
    ELSE [h1 EXCEPT !.c = eol_or_comment(
                 [h1.c EXCEPT !.it = consume_whitespace(h1.c.line_, h1.c.it + 1)])]

\* c.it is after the '['
parse_single_table(h) ==
    IF AtEnd(h.c) \/ At(h.c) = "]" THEN HThrow(h, "Table name cannot be empty")
    ELSE single_table_close(single_table_loop(h))

\* the table array bound to part replaced by a new one of one table
AppendTable_reset(h, part) ==
    LET t == Deref(h.root, h.curr_table)
        nv == TableArray(<<EmptyTable>>)
    IN  [h EXCEPT !.root = Store(h.root, h.curr_table, insert(t, part, nv)),
                  !.curr_table = Append(h.curr_table, <<part, 1>>)]

\* the table array bound to part gets a new table, which curr_table points to
AppendTable(h, part) ==
    LET t == Deref(h.root, h.curr_table)
        v == get(t, part)
        nv == TableArray(Append(v.array_, EmptyTable))
    IN  [h EXCEPT !.root = Store(h.root, h.curr_table, insert(t, part, nv)),
                  !.curr_table = Append(h.curr_table, <<part, Len(nv.array_)>>)]

\* a new table_array is bound to part, without the push_back of a table
InsertTableArray_empty(h, part) ==
    [h EXCEPT !.root = Store(h.root, h.curr_table,
                             insert(Deref(h.root, h.curr_table), part,
                                    TableArray(<<>>))),
              !.curr_table = Append(h.curr_table, <<part, 0>>)]

\* a new table_array holding one new table is bound to part
InsertTableArray(h, part) ==
    [h EXCEPT !.root = Store(h.root, h.curr_table,
                             insert(Deref(h.root, h.curr_table), part,
                                    TableArray(<<EmptyTable>>))),
              !.curr_table = Append(h.curr_table, <<part, 1>>)]

\* the final part bound to something else than a table_array: a new
\* table_array takes its place
ExistingArray_replace(h1, part) ==
    IF ~is_table_array(get(Deref(h1.root, h1.curr_table), part))
    THEN InsertTableArray(h1, part)
    ELSE AppendTable(h1, part)

\* the final part of a table array name, bound in the current table
ExistingArray(h1, part) ==
    IF ~is_table_array(get(Deref(h1.root, h1.curr_table), part))
    THEN HThrow(h1, "Key is not a table array")
    ELSE AppendTable(h1, part)

\* a part of a table array name, h1.c being past the part and its dot
table_array_step(h1, part) ==
    LET last == ~AtEnd(h1.c) /\ At(h1.c) = "]"
    IN  IF contains(Deref(h1.root, h1.curr_table), part)
        THEN IF last THEN ExistingArray(h1, part) ELSE Descend(h1, part)
        ELSE IF last THEN InsertTableArray(h1, part) ELSE InsertTable(h1, part)

RECURSIVE table_array_loop(_)
\* an iteration of the loop of parse_table_array after its call of
\* parse_key, whose result is k
table_array_part(h, k) ==
    IF Failed(k.c) THEN [h EXCEPT !.c = k.c]
    ELSE IF k.v = <<>> THEN HThrow([h EXCEPT !.c = k.c], "Empty component of table array name")
    ELSE table_array_loop(table_array_step([h EXCEPT !.c = SkipDot(k.c)], k.v))

table_array_loop(h) ==
    IF Failed(h.c) THEN h
    ELSE IF ~AtEnd(h.c) /\ At(h.c) # "]"
    THEN table_array_part(h, parse_key(h.c, {".", "]"}))
    ELSE h

\* parse_table_array after its loop
table_array_close(h1) ==
    LET c1 == [h1.c EXCEPT !.it = h1.c.it + 1]
        c2 == [c1 EXCEPT !.it = consume_whitespace(c1.line_, c1.it + 1)]
    IN  IF Failed(h1.c) THEN h1
        ELSE IF AtEnd(h1.c) THEN HThrow(h1, "Unterminated table array name")
        ELSE IF AtEnd(c1) THEN HThrow([h1 EXCEPT !.c = c1], "Unterminated table array name")
        ELSE [h1 EXCEPT !.c = eol_or_comment(c2)]

\* c.it is at the second '['
parse_table_array(h) ==
    LET h0 == [h EXCEPT !.c = [h.c EXCEPT !.it = h.c.it + 1]]
    IN  IF AtEnd(h0.c) \/ At(h0.c) = "]" THEN HThrow(h0, "Table array name cannot be empty")
        ELSE table_array_close(table_array_loop(h0))

\* c.it is at the '['
parse_table(h) ==
    LET h1 == [h EXCEPT !.c = [h.c EXCEPT !.it = h.c.it + 1]]
    IN  IF AtEnd(h1.c) THEN HThrow(h1, "Unexpected end of table")
        ELSE IF At(h1.c) = "[" THEN parse_table_array(h1)
        ELSE parse_single_table(h1)

(***************************************************************************)
(* parse(): one iteration of its loop, on p = [c, root, curr_table, eof].  *)
(***************************************************************************)
\* curr_table = &root; parse_table(it, end, curr_table) has returned h
after_table(p, h) ==
    [p EXCEPT !.c = h.c, !.root = h.root, !.curr_table = h.curr_table]

\* parse_key_value(it, end, curr_table) has returned kv:
\* consume_whitespace and eol_or_comment
after_key_value(p, kv) ==
    IF Failed(kv.c) THEN [p EXCEPT !.c = kv.c]
    ELSE [p EXCEPT !.c = eol_or_comment(
                       [kv.c EXCEPT !.it = consume_whitespace(kv.c.line_, kv.c.it)]),
                   !.root = Store(p.root, p.curr_table, kv.v)]

\* the iteration without  curr_table = &root  before parse_table
ParseIteration_noreset(p) ==
    LET g == getline(p.c)
        c1 == [g.c EXCEPT !.line_number_ = g.c.line_number_ + 1,
                          !.it = consume_whitespace(g.c.line_, 1)]
    IN  IF ~g.ok THEN [p EXCEPT !.c = g.c, !.eof = ~g.c.starved]
        ELSE IF AtEnd(c1) \/ At(c1) = "#" THEN [p EXCEPT !.c = c1]
        ELSE IF At(c1) = "["
        THEN after_table(p, parse_table([c |-> c1, root |-> p.root,
                                         curr_table |-> p.curr_table, inserted |-> FALSE]))
        ELSE after_key_value(p, parse_key_value(c1, Deref(p.root, p.curr_table)))

ParseIteration(p) ==
    LET g == getline(p.c)
        c1 == [g.c EXCEPT !.line_number_ = g.c.line_number_ + 1,
                          !.it = consume_whitespace(g.c.line_, 1)]
    IN  IF ~g.ok THEN [p EXCEPT !.c = g.c, !.eof = ~g.c.starved]
        ELSE IF AtEnd(c1) \/ At(c1) = "#" THEN [p EXCEPT !.c = c1]
        ELSE IF At(c1) = "["
        THEN after_table(p, parse_table([c |-> c1, root |-> p.root,
                                         curr_table |-> <<>>, inserted |-> FALSE]))
        ELSE after_key_value(p, parse_key_value(c1, Deref(p.root, p.curr_table)))

\* parse() on a whole text: the loop run until the stream ends or an
\* exception is thrown
RECURSIVE ParseLoop(_)
ParseLoop(p) ==
    IF Failed(p.c) \/ p.eof THEN p ELSE ParseLoop(ParseIteration(p))

ParserOn(lines) ==
    [c |-> Cursor(lines \o <<EOF>>, <<>>, 0, 1), root |-> EmptyTable,
     curr_table |-> <<>>, eof |-> FALSE]

parse(lines) == ParseLoop(ParserOn(lines))

(***************************************************************************)
(* The printer.  A table's map_ is a std::unordered_map, whose iteration   *)
(* order is unspecified: each print operator yields the set of texts the   *)
(* printer can emit, a text being a sequence of characters with "\n".      *)
(***************************************************************************)
RECURSIVE NatToDigits(_)
NatToDigits(n) ==
    IF n < 10 THEN <<CHOOSE ch \in {"0","1","2","3","4","5","6","7","8","9"} :
                        DigitVal(ch) = n>>
    ELSE NatToDigits(n \div 10) \o NatToDigits(n % 10)

Abs(n) == IF n < 0 THEN 0 - n ELSE n

Repeat(ch, n) == [i \in 1..n |-> ch]

\* os << setw(w) << n with fill '0'
SetW(w, n) ==
    LET ds == (IF n < 0 THEN <<"-">> ELSE <<>>) \o NatToDigits(Abs(n))
    IN  Repeat("0", w - Len(ds)) \o ds

\* operator<<(std::ostream&, const datetime&)
PrintDatetime(dt) ==
    SetW(4, dt.year) \o <<"-">> \o SetW(2, dt.month) \o <<"-">> \o SetW(2, dt.day)
    \o <<"T">> \o SetW(2, dt.hour) \o <<":">> \o SetW(2, dt.minute)
    \o <<":">> \o SetW(2, dt.second)
    \o (IF dt.microsecond > 0 THEN <<".">> \o SetW(6, dt.microsecond) ELSE <<>>)
    \o (IF dt.hour_offset # 0 \/ dt.minute_offset # 0
        THEN (IF dt.hour_offset > 0 THEN <<"+">> ELSE <<"-">>)
             \o SetW(2, Abs(dt.hour_offset)) \o <<":">>
             \o SetW(2, Abs(dt.minute_offset))
        ELSE <<"Z">>)

\* stream << double, the stream's precision being the default 6: %g.  The
\* literals of the model have at most 6 significant digits, so that no
\* rounding takes place.
PrintDouble(d) ==
    LET n == Len(d.digits)
        X == n - 1 + d.exp
        sign == IF d.neg THEN <<"-">> ELSE <<>>
        frac == SubSeq(d.digits, 2, n)
        sci == <<d.digits[1]>> \o (IF frac = <<>> THEN <<>> ELSE <<".">> \o frac)
               \o <<"e", IF X < 0 THEN "-" ELSE "+">> \o SetW(2, Abs(X))
        fixed == IF X >= n - 1 THEN d.digits \o Repeat("0", X - n + 1)
                 ELSE IF X >= 0
                 THEN SubSeq(d.digits, 1, X + 1) \o <<".">> \o SubSeq(d.digits, X + 2, n)
                 ELSE <<"0", ".">> \o Repeat("0", 0 - X - 1) \o d.digits
    IN  IF n = 0 THEN sign \o <<"0">>
        ELSE IF n > 6 THEN <<"?">>
        ELSE IF X < 0 - 4 \/ X >= 6 THEN sign \o sci
        ELSE sign \o fixed

\* value<T>::print
PrintValue(b) ==
    CASE b.type = "string" -> b.data_
      [] b.type = "int64_t" -> (IF b.data_.neg THEN <<"-">> ELSE <<>>) \o b.data_.mag
      [] b.type = "double" -> PrintDouble(b.data_)
      [] b.type = "bool" -> IF b.data_ THEN <<"t","r","u","e">>
                            ELSE <<"f","a","l","s","e">>
      [] b.type = "datetime" -> PrintDatetime(b.data_)

\* the texts a \o b for a in A and b in B
Cat(A, B) == {a \o b : a \in A, b \in B}

Indent(depth) == Repeat("\t", depth)

RECURSIVE PrintNode(_)
RECURSIVE PrintTable(_, _)
RECURSIVE PrintEntries(_, _, _)
RECURSIVE PrintTableArray(_, _, _, _)
RECURSIVE PrintElements(_, _)

\* the loop of array::print over values_[i..]
PrintElements(vs, i) ==
    IF i > Len(vs) THEN {<<>>}
    ELSE Cat(Cat(PrintNode(vs[i]), IF i < Len(vs) THEN {<<",", " ">>} ELSE {<<>>}),
             PrintElements(vs, i + 1))

\* the loop of table_array::print(stream, depth, key) over array_[i..]
PrintTableArray(ta, depth, key, i) ==
    IF i > Len(ta.array_) THEN {<<>>}
    ELSE Cat(Cat({Indent(depth) \o <<"[", "[">> \o key \o <<"]", "]", "\n">>},
                 PrintTable(ta.array_[i], depth + 1)),
             PrintTableArray(ta, depth, key, i + 1))

\* the loop of table::print(stream, depth) over the entries K not yet
\* visited, in any order
PrintEntries(t, K, depth) ==
    IF K = {} THEN {<<>>}
    ELSE UNION {
        Cat(LET b == t.map_[k]
            IN  IF is_table_array(b) THEN PrintTableArray(b, depth, k, 1)
                ELSE IF is_table(b)
                THEN Cat({Indent(depth) \o k \o <<" ", "=", " ", "\n">>},
                         PrintTable(b, depth + 1))
                ELSE Cat(Cat({Indent(depth) \o k \o <<" ", "=", " ">>}, PrintNode(b)),
                         {<<"\n">>}),
            PrintEntries(t, K \ {k}, depth)) : k \in K}

\* table::print(stream, depth)
PrintTable(t, depth) == PrintEntries(t, DOMAIN t.map_, depth)

\* the virtual base::print(stream)
PrintNode(b) ==
    CASE is_value(b) -> {PrintValue(b)}
      [] is_array(b) -> Cat(Cat({<<"[", " ">>}, PrintElements(b.values_, 1)),
                            {<<" ", "]">>})
      [] is_table_array(b) -> PrintTableArray(b, 0, <<>>, 1)
      [] is_table(b) -> PrintTable(b, 0)

\* the lines std::getline reads from a text
RECURSIVE SplitLines(_)
SplitLines(text) ==
    IF text = <<>> THEN <<>>
    ELSE LET nl == FindIn(text, 1, End(text), {"\n"})
         IN  <<SubSeq(text, 1, nl - 1)>> \o SplitLines(SubSeq(text, nl + 1, Len(text)))

(***************************************************************************)
(* The documents of the model: each line the stream delivers is drawn from *)
(* the lines of the profile the behaviour started with.                    *)
(***************************************************************************)
LnTableA == <<"[", "a", "]">>
LnTableAB == <<"[", "a", ".", "b", "]">>
LnArrayA == <<"[", "[", "a", "]", "]">>
LnArrayAB == <<"[", "[", "a", ".", "b", "]", "]">>
LnA1 == <<"a", " ", "=", " ", "1">>
LnB2 == <<"b", " ", "=", " ", "2">>
LnAList == <<"a", " ", "=", " ", "[", "1", "]">>
LnComment == <<"#", " ", "c">>

\* b = {k1 = 1, k2 = 2}
InlineLine(k1, k2) ==
    <<"b", " ", "=", " ", "{">> \o k1 \o <<" ", "=", " ", "1", ",", " ">>
    \o k2 \o <<" ", "=", " ", "2", "}">>

InlineKeys == {<<"a">>, <<"b">>}

LnInlineArrayA == <<"a", " ", "=", " ", "[", "{", "b", " ", "=", " ", "1", "}", "]">>

DocLines ==
    {LnTableA, LnTableAB, LnArrayA, LnArrayAB, LnA1, LnB2, LnAList, LnComment,
     LnInlineArrayA}
    \cup {InlineLine(k1, k2) : k1 \in InlineKeys, k2 \in InlineKeys}

\* the element texts of the array literals of the model
ElInt == <<"1">>
ElString == <<"\"", "x", "\"">>
ElFloat == <<"1", ".", "5">>
ElBool == <<"t", "r", "u", "e">>
ElArray == <<"[", "1", "]">>
ElDate == <<"1", "9", "7", "9", "-", "0", "5", "-", "2", "7", "T", "0", "7", ":", "3", "2", ":", "0", "0", "Z">>

Elements == {ElInt, ElString, ElFloat, ElBool, ElArray, ElDate}

\* what separates the last element of an array literal from its ']'
Closers == {<<>>, <<" ">>}

\* a = [e1, e2]  and  a = [e1, e2 ]
ArrayLine(e1, e2, closer) ==
    <<"a", " ", "=", " ", "[">> \o e1 \o <<",", " ">> \o e2 \o closer \o <<"]">>

LnNested == <<"b", " ", "=", " ", "[", "[", "1", "]", ",", " ", "[", "\"", "x", "\"", "]", "]">>
LnInlineInNested == <<"b", " ", "=", " ", "[", "[", "{", "a", " ", "=", " ", "1", "}", "]", "]">>
LnInlineArray == <<"b", " ", "=", " ", "[", "{", "a", " ", "=", " ", "1", "}", "]">>
LnEmptyArray == <<"b", " ", "=", " ", "[", "]">>
LnOpenArray == <<"b", " ", "=", " ", "[", "1", ",">>
LnCloseArray == <<" ", " ", "\"", "x", "\"", " ", "]", " ", "#", " ", "c">>
LnCloseArray2 == <<" ", " ", "2", " ", "]">>

ValueLines ==
    {LnNested, LnInlineInNested, LnInlineArray, LnEmptyArray, LnOpenArray, LnCloseArray, LnCloseArray2}
    \cup {ArrayLine(e1, e2, cl) : e1 \in Elements, e2 \in Elements, cl \in Closers}

LnString == <<"b", " ", "=", " ", "\"", "x", "\"">>
LnBool == <<"b", " ", "=", " ", "t", "r", "u", "e">>
LnFloat == <<"a", " ", "=", " ", "1", ".", "5">>
LnDate == <<"a", " ", "=", " ", "1", "9", "7", "9", "-", "0", "5", "-", "2", "7", "T", "0", "7", ":", "3", "2", ":", "0", "0", "Z">>
LnList == <<"b", " ", "=", " ", "[", "1", ",", " ", "2", "]">>

PrintLines == {LnA1, LnTableA, LnArrayA, LnString, LnBool, LnFloat, LnDate, LnList}

LnOpenString == <<"s", " ", "=", " ", "\"", "\"", "\"", "a", "b">>
LnOpenStringBare == <<"s", " ", "=", " ", "\"", "\"", "\"">>
LnCloseString == <<"c", "d", "\"", "\"", "\"">>
LnBadEscape == <<"c", "\\", "q">>
LnBlank == <<>>

\* documents with values that span lines, with blank lines and headers
SpanLines ==
    {LnOpenString, LnCloseString, LnBadEscape, LnOpenArray, LnCloseArray2,
     LnComment, LnA1, LnBlank, LnTableA, LnTableAB, LnB2, LnOpenStringBare}

LnEmptyFirst == <<"[", ".", "a", "]">>
LnEmptyMiddle == <<"[", "a", ".", ".", "b", "]">>
LnEmptyLast == <<"[", "a", ".", "]">>
LnEmptyName == <<"[", "]">>
LnArrayEmptyFirst == <<"[", "[", ".", "a", "]", "]">>
LnArrayEmptyLast == <<"[", "[", "a", ".", "]", "]">>
LnArrayEmptyName == <<"[", "[", "]", "]">>

\* the headers with an empty component in their names
EmptyComponentLines ==
    {LnEmptyFirst, LnEmptyMiddle, LnEmptyLast, LnEmptyName,
     LnArrayEmptyFirst, LnArrayEmptyLast, LnArrayEmptyName}

LnOpenTable == <<"[", "a">>
LnOpenArrayName == <<"[", "[", "a">>
LnHalfClosed == <<"[", "[", "a", "]">>
LnOtherCloser == <<"[", "[", "a", "]", "x">>
LnTableTrailing == <<"[", "a", "]", "x">>
LnArrayTrailing == <<"[", "[", "a", "]", "]", "x">>
LnTableCommented == <<"[", "a", "]", " ", "#", " ", "c">>

\* headers that lack a closing bracket or have another character there
UnclosedLines ==
    {LnOpenTable, LnOpenArrayName, LnHalfClosed, LnOtherCloser, LnTableTrailing,
     LnArrayTrailing}

\* documents with such headers
HeaderLines ==
    EmptyComponentLines \cup UnclosedLines
    \cup {LnTableA, LnTableAB, LnArrayA, LnA1, LnTableCommented}

LnKeyWord == <<"A", "-", "b", "_", "1", " ", "=", " ", "1">>
LnKeyBang == <<"a", "!", "b", " ", "=", " ", "1">>
LnKeyDot == <<"a", ".", "b", " ", "=", " ", "1">>
LnKeySpace == <<"a", " ", "b", " ", "=", " ", "1">>
LnKeyHash == <<"a", "#", "b", " ", "=", " ", "1">>
LnKeyOpen == <<"a", "[", "b", " ", "=", " ", "1">>
LnKeyClose == <<"a", "]", "b", " ", "=", " ", "1">>
LnKeyEmpty == <<"=", " ", "1">>

\* documents with bare keys of every sort
KeyLines ==
    {LnA1, LnB2, LnKeyWord, LnKeyBang, LnKeyDot, LnKeySpace, LnKeyHash,
     LnKeyOpen, LnKeyClose, LnKeyEmpty, LnTableA}

LitZero == <<"0">>
LitMinusZero == <<"-", "0">>
LitPlus == <<"+", "5">>
LitUnderscores == <<"-", "1", "_", "0", "0", "0">>
LitLeadingZeros == <<"0", "0", "7">>
LitMax == <<"9", "2", "2", "3", "3", "7", "2", "0", "3", "6", "8", "5", "4", "7", "7", "5", "8", "0", "7">>
LitMin == <<"-", "9", "2", "2", "3", "3", "7", "2", "0", "3", "6", "8", "5", "4", "7", "7", "5", "8", "0", "8">>
LitMaxUnderscores == <<"9", "_", "2", "2", "3", "_", "3", "7", "2", "_", "0", "3", "6", "_", "8", "5", "4", "_", "7", "7", "5", "_", "8", "0", "7">>
LitAboveMax == <<"9", "2", "2", "3", "3", "7", "2", "0", "3", "6", "8", "5", "4", "7", "7", "5", "8", "0", "8">>
LitBelowMin == <<"-", "9", "2", "2", "3", "3", "7", "2", "0", "3", "6", "8", "5", "4", "7", "7", "5", "8", "0", "9">>
LitNines == <<"9", "9", "9", "9", "9", "9", "9", "9", "9", "9", "9", "9", "9", "9", "9", "9", "9", "9", "9">>
LitLong == <<"1", "0", "0", "0", "0", "0", "0", "0", "0", "0", "0", "0", "0", "0", "0", "0", "0", "0", "0", "0", "0", "0", "0">>

\* integer literals around the ends of the range of int64_t
IntLiterals ==
    {LitZero, LitMinusZero, LitPlus, LitUnderscores, LitLeadingZeros, LitMax,
     LitMin, LitMaxUnderscores, LitAboveMax, LitBelowMin, LitNines, LitLong}

\* documents that bind a or b to such a literal
IntLines == {<<k, " ", "=", " ">> \o lit : k \in {"a", "b"}, lit \in IntLiterals}

ElIntTwo == <<"2">>
ElStringY == <<"\"", "y", "\"">>
ElFloatExp == <<"2", "e", "5">>
ElBoolFalse == <<"f", "a", "l", "s", "e">>
ElDateNext == <<"1", "9", "8", "0", "-", "0", "5", "-", "2", "7", "T", "0", "7", ":", "3", "2", ":", "0", "0", "Z">>

LnArrayGap == <<"a", " ", "=", " ", "[", "1", " ", "2">>
LnArrayBrace == <<"a", " ", "=", " ", "[", "1", "}">>
LnArrayOpen == <<"a", " ", "=", " ", "[", "1">>

\* two valid values of every scalar kind
ScalarKinds ==
    {{ElInt, ElIntTwo}, {ElString, ElStringY}, {ElFloat, ElFloatExp},
     {ElBool, ElBoolFalse}, {ElDate, ElDateNext}}

\* documents with array literals of two values of one scalar kind, and with
\* array literals that lack the closing bracket
ScalarArrayLines ==
    UNION {{ArrayLine(e1, e2, <<>>) : e1 \in K, e2 \in K} : K \in ScalarKinds}
    \cup {LnTableA, LnB2, LnArrayGap, LnArrayBrace, LnArrayOpen}

TokPlain == <<"1", "_", "0">>
TokSigned == <<"-", "1", "_", "0">>
TokFloat == <<"1", "_", "0", ".", "5", "_", "0", "e", "1", "_", "0">>
TokExp == <<"1", "_", "0", "E", "-", "1">>
TokNoUnderscore == <<"1", "5">>
TokFraction == <<"+", "1", ".", "5">>
TokLeading == <<"_", "1">>
TokTrailing == <<"1", "_">>
TokDoubled == <<"1", "_", "_", "0">>
TokAfterSign == <<"-", "_", "1">>
TokBeforeDot == <<"1", "_", ".", "5">>
TokAfterDot == <<"1", ".", "_", "5">>
TokBeforeExp == <<"1", "_", "e", "5">>
TokAfterExp == <<"1", "e", "_", "5">>
TokFractionEnd == <<"1", ".", "5", "_">>
TokExpEnd == <<"1", "e", "5", "_">>

\* number tokens with '_' between digits and elsewhere
NumberTokens ==
    {TokPlain, TokSigned, TokFloat, TokExp, TokNoUnderscore, TokFraction,
     TokLeading, TokTrailing, TokDoubled, TokAfterSign, TokBeforeDot,
     TokAfterDot, TokBeforeExp, TokAfterExp, TokFractionEnd, TokExpEnd}

\* a = token
NumberLine(tok) == <<"a", " ", "=", " ">> \o tok

\* documents that bind a to such a token
NumberLines ==
    {NumberLine(tok) : tok \in NumberTokens} \cup {LnTableA, LnTableAB, LnB2}

ElInline == <<"{", "a", " ", "=", " ", "1", "}">>
ElBadBool == <<"t", "r", "u">>

\* value texts of every kind, and two that no line accepts
PairValues ==
    {ElInt, ElString, ElFloat, ElBool, ElBoolFalse, ElDate, ElArray, ElInline,
     ElBadBool, TokTrailing}

\* what follows a pair of an inline table: '}', a blank, or ',' and a pair
PairFollowers ==
    {<<"}">>, <<" ", "}">>, <<",", " ", "b", " ", "=", " ", "1", "}">>}

\* b = {a = value ...
PairLine(v, f) == <<"b", " ", "=", " ", "{", "a", " ", "=", " ">> \o v \o f

\* documents with inline tables
PairLines ==
    {PairLine(v, f) : v \in PairValues, f \in PairFollowers} \cup {LnTableA, LnA1}

DateZ == <<"1", "9", "7", "9", "-", "0", "5", "-", "2", "7", "T", "0", "7", ":", "3", "2", ":", "0", "0", "Z">>
DatePlus == <<"1", "9", "7", "9", "-", "0", "5", "-", "2", "7", "T", "0", "7", ":", "3", "2", ":", "0", "0", "+", "0", "5", ":", "3", "0">>
DateMinus == <<"1", "9", "7", "9", "-", "0", "5", "-", "2", "7", "T", "0", "7", ":", "3", "2", ":", "0", "0", "-", "0", "5", ":", "3", "0">>
DatePlusMinutes == <<"1", "9", "7", "9", "-", "0", "5", "-", "2", "7", "T", "0", "7", ":", "3", "2", ":", "0", "0", "+", "0", "0", ":", "3", "0">>
DateMinusMinutes == <<"1", "9", "7", "9", "-", "0", "5", "-", "2", "7", "T", "0", "7", ":", "3", "2", ":", "0", "0", "-", "0", "0", ":", "3", "0">>
DateZeroOffset == <<"1", "9", "7", "9", "-", "0", "5", "-", "2", "7", "T", "0", "7", ":", "3", "2", ":", "0", "0", "+", "0", "0", ":", "0", "0">>
DateFraction == <<"1", "9", "7", "9", "-", "0", "5", "-", "2", "7", "T", "0", "7", ":", "3", "2", ":", "0", "0", ".", "5", "Z">>
DateMicro == <<"2", "0", "0", "1", "-", "1", "2", "-", "3", "1", "T", "2", "3", ":", "5", "9", ":", "5", "9", ".", "1", "2", "3", "4", "5", "6", "-", "0", "8", ":", "0", "0">>

\* datetime texts with every form of offset and of fraction
DateTexts ==
    {DateZ, DatePlus, DateMinus, DatePlusMinutes,
     DateMinusMinutes, DateZeroOffset, DateFraction, DateMicro}

\* documents that bind a or b to a datetime
DateLines == {<<k, " ", "=", " ">> \o d : k \in {"a", "b"}, d \in DateTexts}

\* the documents whose trees are queried
QueryLines == {LnTableA, LnTableAB, LnArrayA, LnArrayAB, LnA1, LnB2}

\* the names of the qualified keys of the queries: two names the documents
\* bind and the empty name
QueryNames == {<<"a">>, <<"b">>, <<>>}

MaxParts == 3

QueryPaths == UNION {[1..n -> QueryNames] : n \in 1..MaxParts}

\* the qualified key k1.k2...kn
RECURSIVE Dotted(_)
Dotted(ks) ==
    IF Len(ks) = 1 THEN ks[1] ELSE ks[1] \o <<".">> \o Dotted(Tail(ks))

LinesOf(prof) ==
    CASE prof = "doc" -> DocLines
      [] prof = "values" -> ValueLines
      [] prof = "print" -> PrintLines
      [] prof = "query" -> QueryLines
      [] prof = "span" -> SpanLines
      [] prof = "date" -> DateLines
      [] prof = "pair" -> PairLines
      [] prof = "number" -> NumberLines
      [] prof = "array" -> ScalarArrayLines
      [] prof = "int" -> IntLines
      [] prof = "key" -> KeyLines
      [] prof = "header" -> HeaderLines

(***************************************************************************)
(* The state: the parser (the lines read from input_ so far, line_,        *)
(* line_number_), the locals root and curr_table of parse(), where parse() *)
(* stands (pc), the message of the exception it threw (err) and the text   *)
(* printed from the tree it returned (out), the qualified key the caller   *)
(* looked up in that tree (query) and what the lookups gave (got).  After  *)
(* a throw root and curr_table keep the values they had when the exception *)
(* left parse().                                                           *)
(***************************************************************************)
VARIABLES profile, input_, line_, line_number_, root, curr_table, pc, err, out,
          query, got

vars ==
    <<profile, input_, line_, line_number_, root, curr_table, pc, err, out, query, got>>

InitOf(prof) ==
    /\ profile = prof
    /\ input_ = <<>>
    /\ line_ = <<>>
    /\ line_number_ = 0
    /\ root = EmptyTable
    /\ curr_table = <<>>
    /\ pc = "parsing"
    /\ err = ""
    /\ out = <<>>
    /\ query = <<>>
    /\ got = <<>>

Init == InitOf("doc")

\* the parser as parse() holds it, about to read the lines ls
Parser(ls, before, after) ==
    [c |-> [Cursor(ls, line_, line_number_, 1) EXCEPT !.before = before,
                                                      !.after = after],
     root |-> root, curr_table |-> curr_table, eof |-> FALSE]

\* the results of one iteration of parse() that starts by reading the lines
\* ls, over what the stream may hold after them: at most room more lines
RECURSIVE Iterations(_, _, _, _)
\* r is the result of the iteration on ls: when it asked for a line beyond
\* ls, the stream holds one more line (or ends there)
IterationsOf(r, ls, room, before, after) ==
    IF r.c.starved
    THEN UNION {Iterations(Append(ls, l), room - 1, before, after) :
                    l \in (IF room > 0 THEN LinesOf(profile) ELSE {}) \cup {EOF}}
    ELSE {[r EXCEPT !.c.input_ = SelectSeq(ls, LAMBDA l : l # EOF)]}

Iterations(ls, room, before, after) ==
    IterationsOf(ParseIteration(Parser(ls, before, after)), ls, room, before, after)

\* the loop of parse() going on to the next line after an exception
ParseLine_resume ==
    /\ pc = "parsing"
    /\ Len(input_) < MaxLines
    /\ \E l \in LinesOf(profile), before \in BytesBefore, after \in BytesAfter :
         \E r \in Iterations(<<l>>, MaxLines - Len(input_) - 1, before, after) :
            /\ input_' = input_ \o r.c.input_
            /\ line_' = r.c.line_
            /\ line_number_' = r.c.line_number_
            /\ root' = r.root
            /\ curr_table' = r.curr_table
            /\ err' = r.c.err
            /\ pc' = "parsing"
    /\ UNCHANGED <<profile, out, query, got>>

\* std::getline delivers a line: one iteration of the loop of parse()
ParseLine ==
    /\ pc = "parsing"
    /\ Len(input_) < MaxLines
    /\ \E l \in LinesOf(profile), before \in BytesBefore, after \in BytesAfter :
         \E r \in Iterations(<<l>>, MaxLines - Len(input_) - 1, before, after) :
            /\ input_' = input_ \o r.c.input_
            /\ line_' = r.c.line_
            /\ line_number_' = r.c.line_number_
            /\ root' = r.root
            /\ curr_table' = r.curr_table
            /\ err' = r.c.err
            /\ pc' = IF r.c.err # "" THEN "thrown" ELSE "parsing"
    /\ UNCHANGED <<profile, out, query, got>>

\* std::getline fails: parse() returns root
ParseEof ==
    /\ pc = "parsing"
    /\ pc' = "returned"
    /\ UNCHANGED <<profile, input_, line_, line_number_, root, curr_table, err, out,
                   query, got>>

\* std::cout << root: the tree parse() returned is printed
Emit ==
    /\ pc = "returned"
    /\ \E text \in PrintTable(root, 0) : out' = text
    /\ pc' = "printed"
    /\ UNCHANGED <<profile, input_, line_, line_number_, root, curr_table, err,
                   query, got>>

\* the caller looks a qualified query up in the tree parse() returned, with
\* get_qualified and with contains_qualified
Query ==
    /\ pc = "returned"
    /\ \E ks \in QueryPaths :
          /\ query' = Dotted(ks)
          /\ got' = [get_qualified |-> get_qualified(root, Dotted(ks)),
                     contains_qualified |-> contains_qualified(root, Dotted(ks))]
    /\ pc' = "queried"
    /\ UNCHANGED <<profile, input_, line_, line_number_, root, curr_table, err, out>>

Next == ParseLine \/ ParseEof

NextQuery == ParseLine \/ ParseEof \/ Query

NextPrint == ParseLine \/ ParseEof \/ Emit

\* documents of headers and key/value lines
Spec == Init /\ [][Next]_vars

\* documents of key/value lines with array and inline table values
SpecValues == InitOf("values") /\ [][Next]_vars

\* documents that are parsed and printed
SpecPrint == InitOf("print") /\ [][NextPrint]_vars

\* documents with multi-line strings and multi-line arrays
SpecSpan == InitOf("span") /\ [][Next]_vars

\* documents with headers that have empty components
SpecHeader == InitOf("header") /\ [][Next]_vars

\* documents with bare keys of every sort
SpecKey == InitOf("key") /\ [][Next]_vars

\* documents with integer literals
SpecInt == InitOf("int") /\ [][Next]_vars

\* documents with array literals of every scalar kind
SpecArray == InitOf("array") /\ [][Next]_vars

\* documents with number tokens
SpecNumber == InitOf("number") /\ [][Next]_vars

\* documents with inline tables
SpecPair == InitOf("pair") /\ [][Next]_vars

\* documents of datetimes that are parsed and printed
SpecDate == InitOf("date") /\ [][NextPrint]_vars

\* documents that are parsed and queried
SpecQuery == InitOf("query") /\ [][NextQuery]_vars

(***************************************************************************)
(* The properties.  A step of parse() that read a line is a Read step, the *)
(* line it read first is NewLine, and Current is the table curr_table      *)
(* points to.                                                              *)
(***************************************************************************)
Read == Len(input_') > Len(input_)

NewLine == input_'[Len(input_) + 1]

Current == Deref(root, curr_table)

Last(s) == s[Len(s)]

KeyA == <<"a">>
KeyB == <<"b">>

IsKeyValueLine(l) == l[1] \notin {"[", "#"}

\* the key of a key/value line: what stands before the blank or the '='
KeyOf(l) == SubSeq(l, 1, Min({i \in 1..Len(l) : l[i] \in {" ", "="}}) - 1)

TableHeaders == {LnTableA, LnTableAB}

ArrayHeaders == {LnArrayA, LnArrayAB}

\* the parts of the name of a header line (the names of the model's headers
\* are one character long)
HeaderParts(l) ==
    LET cs == SelectSeq(l, LAMBDA ch : ch \notin {"[", "]", "."})
    IN  [i \in 1..Len(cs) |-> <<cs[i]>>]

Absent == [kind |-> "absent"]

\* the node a dotted name stands for below node: a part is looked up in a
\* Table, or in the last Table of a TableArray
RECURSIVE Resolve(_, _)
Resolve(node, parts) ==
    IF parts = <<>> THEN node
    ELSE LET t == IF is_table(node) THEN node
                  ELSE IF is_table_array(node) /\ node.array_ # <<>>
                  THEN Last(node.array_)
                  ELSE Absent
         IN  IF is_table(t) /\ Head(parts) \in DOMAIN t.map_
             THEN Resolve(t.map_[Head(parts)], Tail(parts))
             ELSE Absent

\* C1: a key/value line whose key is already bound in the current table, to
\* a node of any kind, and an inline table that binds one key twice, fail
\* with "Key already present" and leave the tree as it was.
C1_DuplicateKeyFails ==
    [][(/\ Read
        /\ IsKeyValueLine(NewLine)
        /\ \/ KeyOf(NewLine) \in DOMAIN Current.map_
           \/ \E k \in InlineKeys : NewLine = InlineLine(k, k))
       => (err' = "Key already present" /\ root' = root)]_vars

\* C1: parse() threw "Key already present" on the line  b = 2  read where b
\* is bound to a table_array.
C1_Witness ==
    /\ pc = "thrown"
    /\ err = "Key already present"
    /\ input_ # <<>> /\ Last(input_) = LnB2
    /\ KeyB \in DOMAIN Current.map_
    /\ is_table_array(Current.map_[KeyB])

\* t is a Table that directly holds a scalar or an array
HoldsValueOrArray(t) ==
    /\ is_table(t)
    /\ \E k \in DOMAIN t.map_ : is_value(t.map_[k]) \/ is_array(t.map_[k])

\* C2: a header [p] whose name stands for a Table that directly holds a
\* scalar or an array fails with "Redefinition of table".
C2_ValueOrArrayRedefines ==
    [][(/\ Read
        /\ NewLine \in TableHeaders
        /\ HoldsValueOrArray(Resolve(root, HeaderParts(NewLine))))
       => err' = "Redefinition of table"]_vars

\* C3: a header [p] that was accepted before fails when it is read again,
\* whatever lines stand in between (no table array header among them, so
\* that p stands for the same Table both times).
C3_HeaderOnlyOnce ==
    [][(/\ Read
        /\ NewLine \in TableHeaders
        /\ \E i \in 1..Len(input_) : input_[i] = NewLine
        /\ \A i \in 1..Len(input_) : input_[i] \notin ArrayHeaders)
       => err' # ""]_vars

\* the Table a exists and no header [a] was read: a deeper header made it
ImplicitA ==
    /\ KeyA \in DOMAIN root.map_
    /\ is_table(root.map_[KeyA])
    /\ \A i \in 1..Len(input_) : input_[i] # LnTableA

\* table new is table old with key bound in addition
OneMore(old, new, key) ==
    /\ is_table(new)
    /\ key \notin DOMAIN old.map_
    /\ DOMAIN new.map_ = DOMAIN old.map_ \cup {key}
    /\ \A k \in DOMAIN old.map_ : new.map_[k] = old.map_[k]

\* C4: when the Table a was made by a deeper header only, the header [a] is
\* accepted, leaves the tree as it was and makes a the current table; a
\* key/value line accepted while a is the current table binds its key in a,
\* next to the entries a holds, and changes nothing else.
C4_ImplicitTableAdopted ==
    [][Read =>
         /\ (NewLine = LnTableA /\ ImplicitA)
            => /\ err' = ""
               /\ root' = root
               /\ curr_table' = <<<<KeyA, 0>>>>
         /\ (IsKeyValueLine(NewLine) /\ curr_table = <<<<KeyA, 0>>>> /\ err' = "")
            => /\ curr_table' = curr_table
               /\ DOMAIN root'.map_ = DOMAIN root.map_
               /\ \A k \in DOMAIN root.map_ \ {KeyA} : root'.map_[k] = root.map_[k]
               /\ OneMore(root.map_[KeyA], root'.map_[KeyA], KeyOf(NewLine))]_vars

\* C4: [a.b], [a], a = 1 were read: the Table a holds b and a.
C4_Witness ==
    /\ pc = "parsing"
    /\ input_ = <<LnTableAB, LnTableA, LnA1>>
    /\ DOMAIN root.map_[KeyA].map_ = {KeyA, KeyB}
    /\ root.map_[KeyA].map_[KeyB] = EmptyTable

\* node is what a table array header binds to a key that was absent, path
\* being the steps from that key on: Tables of one entry each, down to a
\* TableArray of one empty Table
RECURSIVE Fresh(_, _)
Fresh(node, path) ==
    IF path[1][2] > 0
    THEN Len(path) = 1 /\ path[1][2] = 1 /\ node = TableArray(<<EmptyTable>>)
    ELSE /\ Len(path) > 1
         /\ is_table(node)
         /\ DOMAIN node.map_ = {path[2][1]}
         /\ Fresh(node.map_[path[2][1]], Tail(path))

\* table new is table old with one empty Table appended to the TableArray
\* the steps of path lead to, its last step pointing to that Table, and
\* nothing else changed
RECURSIVE AppendedAt(_, _, _)
AppendedAt(old, new, path) ==
    /\ is_table(new)
    /\ DOMAIN new.map_ = DOMAIN old.map_ \cup {path[1][1]}
    /\ \A k \in DOMAIN old.map_ \ {path[1][1]} : new.map_[k] = old.map_[k]
    /\ IF path[1][1] \notin DOMAIN old.map_
       THEN Fresh(new.map_[path[1][1]], path)
       ELSE LET o == old.map_[path[1][1]]
                n == new.map_[path[1][1]]
                idx == path[1][2]
            IN  IF idx = 0
                THEN is_table(o) /\ Len(path) > 1 /\ AppendedAt(o, n, Tail(path))
                ELSE /\ is_table_array(o)
                     /\ is_table_array(n)
                     /\ IF Len(path) = 1
                        THEN /\ n.array_ = Append(o.array_, EmptyTable)
                             /\ idx = Len(n.array_)
                        ELSE /\ Len(n.array_) = Len(o.array_)
                             /\ idx = Len(o.array_)
                             /\ \A i \in 1..(idx - 1) : n.array_[i] = o.array_[i]
                             /\ AppendedAt(o.array_[idx], n.array_[idx], Tail(path))

\* C5: an accepted header [[p]] makes the TableArray p stands for one Table
\* longer (of length 1 when p was absent); the Table appended is empty and
\* is the current table; the Tables appended before and every other entry
\* of the tree are as they were.
C5_TableArrayAppend ==
    [][(Read /\ NewLine \in ArrayHeaders /\ err' = "")
       => /\ [i \in 1..Len(curr_table') |-> curr_table'[i][1]] = HeaderParts(NewLine)
          /\ AppendedAt(root, root', curr_table')]_vars

\* C5: [[a]], a = 1, [[a]] were read: the TableArray a holds the Table of
\* the first header and the empty one of the second, the current table.
C5_Witness ==
    /\ pc = "parsing"
    /\ input_ = <<LnArrayA, LnA1, LnArrayA>>
    /\ Len(root.map_[KeyA].array_) = 2
    /\ root.map_[KeyA].array_[1] # EmptyTable
    /\ curr_table = <<<<KeyA, 2>>>>

\* C6: a header [[p]] whose name stands for a Table, a scalar or an array
\* fails with "Key is not a table array" and leaves the tree as it was.
C6_NotATableArray ==
    [][(/\ Read
        /\ NewLine \in ArrayHeaders
        /\ Resolve(root, HeaderParts(NewLine)).kind \in {"table", "value", "array"})
       => (err' = "Key is not a table array" /\ root' = root)]_vars

\* C6: a = [1], [[a]] were read: parse() threw, a is the array it was.
C6_Witness ==
    /\ pc = "thrown"
    /\ err = "Key is not a table array"
    /\ input_ = <<LnAList, LnArrayA>>
    /\ is_array(root.map_[KeyA])

\* every step of path that enters a TableArray of the tree below node
\* enters its last Table
RECURSIVE LastSteps(_, _)
LastSteps(node, path) ==
    \/ path = <<>>
    \/ /\ path[1][1] \in DOMAIN node.map_
       /\ LET b == node.map_[path[1][1]]
              idx == path[1][2]
          IN  IF idx = 0 THEN is_table(b) /\ LastSteps(b, Tail(path))
              ELSE /\ is_table_array(b)
                   /\ idx = Len(b.array_)
                   /\ LastSteps(b.array_[idx], Tail(path))

\* every entry of table old is in table new, changed at most inside the
\* last Table of a TableArray: the Tables before the last are as they were
RECURSIVE Frozen(_, _)
Frozen(old, new) ==
    /\ is_table(new)
    /\ \A k \in DOMAIN old.map_ :
          /\ k \in DOMAIN new.map_
          /\ LET o == old.map_[k]
                 n == new.map_[k]
             IN  IF is_table(o) THEN Frozen(o, n)
                 ELSE IF is_table_array(o)
                 THEN /\ is_table_array(n)
                      /\ Len(n.array_) >= Len(o.array_)
                      /\ \A i \in 1..Len(o.array_) :
                            IF i < Len(n.array_) THEN n.array_[i] = o.array_[i]
                            ELSE Frozen(o.array_[i], n.array_[i])
                 ELSE n = o

\* C7: an accepted line leaves the current table below the last Table of
\* every TableArray its path goes through, and no line changes a Table that
\* is not the last of its TableArray.
C7_LastElement ==
    [][Read => /\ Frozen(root, root')
               /\ err' = "" => LastSteps(root', curr_table')]_vars

\* C7: [[a]], [[a]], [a.b], a = 1 were read: the key went below b in the
\* second Table of a, the first is empty.
C7_Witness ==
    /\ pc = "parsing"
    /\ input_ = <<LnArrayA, LnArrayA, LnTableAB, LnA1>>
    /\ curr_table = <<<<KeyA, 2>>, <<KeyB, 0>>>>
    /\ root.map_[KeyA].array_[1] = EmptyTable
    /\ KeyA \in DOMAIN root.map_[KeyA].array_[2].map_[KeyB].map_

\* the kind of an element text
KindOf(e) ==
    CASE e = ElInt -> "int64_t"
      [] e = ElString -> "string"
      [] e = ElFloat -> "double"
      [] e = ElBool -> "bool"
      [] e = ElDate -> "datetime"
      [] e = ElArray -> "array"

\* the elements vs of an Array are all of the kind of the first, and when
\* that is a scalar, of its type
SameKind(vs) ==
    \A i \in 1..Len(vs) :
       /\ vs[i].kind = vs[1].kind
       /\ is_value(vs[1]) => vs[i].type = vs[1].type

\* every Array of the tree below b is homogeneous
RECURSIVE Homogeneous(_)
Homogeneous(b) ==
    IF is_table(b) THEN \A k \in DOMAIN b.map_ : Homogeneous(b.map_[k])
    ELSE IF is_table_array(b)
    THEN \A i \in 1..Len(b.array_) : Homogeneous(b.array_[i])
    ELSE IF is_array(b)
    THEN SameKind(b.values_) /\ \A i \in 1..Len(b.values_) : Homogeneous(b.values_[i])
    ELSE TRUE

\* a = [e1, e2] is read where a is not bound, e1 and e2 of different kinds
Mixed(e1, e2, cl) ==
    /\ NewLine = ArrayLine(e1, e2, cl)
    /\ KindOf(e1) # KindOf(e2)
    /\ KeyA \notin DOMAIN Current.map_

RECURSIVE NoTableElements(_)
NoTableElements(b) ==
    IF is_table(b) THEN \A k \in DOMAIN b.map_ : NoTableElements(b.map_[k])
    ELSE IF is_table_array(b)
    THEN \A i \in 1..Len(b.array_) : NoTableElements(b.array_[i])
    ELSE IF is_array(b)
    THEN \A i \in 1..Len(b.values_) :
            /\ ~is_table(b.values_[i])
            /\ ~is_table_array(b.values_[i])
            /\ NoTableElements(b.values_[i])
    ELSE TRUE

\* C9: in the tree parse() returns, the elements of every Array are scalars
\* or Arrays, at any depth.
C9_NoTablesInArrays == pc = "returned" => NoTableElements(root)

\* parse() returned the tree t without throwing
Returns(r, t) == r.c.err = "" /\ r.root = t

\* C10: the text printed from the tree parse() returned is parsed without
\* an exception, to a tree equal to the one printed.
C10_RoundTrip == pc = "printed" => Returns(parse(SplitLines(out)), root)

\* the lines of the text printed
OutLines == SplitLines(out)

\* line i of the text printed is a header line
IsHeaderLine(i) == OutLines[i] # <<>> /\ OutLines[i][1] = "["

\* line i of the text printed binds a scalar or an array of the root
IsDirectEntryLine(i) ==
    \E k \in DOMAIN root.map_ :
       /\ is_value(root.map_[k]) \/ is_array(root.map_[k])
       /\ Len(OutLines[i]) >= Len(k) + 3
       /\ SubSeq(OutLines[i], 1, Len(k) + 3) = k \o <<" ", "=", " ">>

\* C11: in the text printed from the root, the lines of the root's scalars
\* and arrays stand before every header line, every Table bound in the root
\* has its header line [key], and every TableArray bound in the root has one
\* header line [[key]] for each of its Tables.
C11_PrintedLayout ==
    pc = "printed" =>
       /\ \A i, j \in 1..Len(OutLines) :
             (IsDirectEntryLine(i) /\ IsHeaderLine(j)) => i < j
       /\ \A k \in DOMAIN root.map_ :
             is_table(root.map_[k])
             => \E i \in 1..Len(OutLines) : OutLines[i] = <<"[">> \o k \o <<"]">>
       /\ \A k \in DOMAIN root.map_ :
             is_table_array(root.map_[k])
             => Cardinality({i \in 1..Len(OutLines) :
                                OutLines[i] = <<"[", "[">> \o k \o <<"]", "]">>})
                = Len(root.map_[k].array_)

\* the node the chain get(k1).get(k2)...get(kn) gives from node; Absent
\* when a get of the chain fails, on a node that is not a Table or that
\* does not bind the key
RECURSIVE Chain(_, _)
Chain(node, ks) ==
    IF ks = <<>> THEN node
    ELSE IF is_table(node) /\ Head(ks) \in DOMAIN node.map_
    THEN Chain(node.map_[Head(ks)], Tail(ks))
    ELSE Absent

\* k1, k1.k2, ..., k1...k(n-1) are Tables of the tree
IntermediatesAreTables(ks) ==
    \A i \in 1..(Len(ks) - 1) : is_table(Chain(root, SubSeq(ks, 1, i)))

\* C12: when the intermediates of k1.k2...kn are Tables, get_qualified
\* returns the node the chain of gets returns, and throws when the last get
\* of the chain fails.
C12_QualifiedGetIsChain ==
    pc = "queried" =>
       \A ks \in QueryPaths :
          (query = Dotted(ks) /\ IntermediatesAreTables(ks))
          => IF Chain(root, ks).kind = "absent"
             THEN got.get_qualified.err = "std::out_of_range"
             ELSE /\ got.get_qualified.err = ""
                  /\ got.get_qualified.p = Chain(root, ks)

\* C12: a.b.a was looked up in the tree of [a.b], a = 1 and gave the value.
C12_Witness ==
    /\ pc = "queried"
    /\ input_ = <<LnTableAB, LnA1>>
    /\ query = <<"a", ".", "b", ".", "a">>
    /\ got.get_qualified.err = ""
    /\ is_value(got.get_qualified.p)

\* C13: get_qualified throws std::out_of_range when an intermediate of the
\* key is not bound or not bound to a Table, or the last part is not bound;
\* contains_qualified throws nothing and is true exactly when get_qualified
\* returns.
C13_QualifiedMissing ==
    pc = "queried" =>
       \A ks \in QueryPaths :
          query = Dotted(ks)
          => /\ (~IntermediatesAreTables(ks) \/ Chain(root, ks).kind = "absent")
                => got.get_qualified.err = "std::out_of_range"
             /\ got.contains_qualified.err = ""
             /\ got.contains_qualified.ret <=> got.get_qualified.err = ""

\* C13: a.b was looked up in the tree of [[a]], b = 2, where a is a
\* TableArray whose Table binds b: get_qualified threw.
C13_Witness ==
    /\ pc = "queried"
    /\ input_ = <<LnArrayA, LnB2>>
    /\ query = <<"a", ".", "b">>
    /\ is_table_array(root.map_[KeyA])
    /\ got.get_qualified.err = "std::out_of_range"
    /\ ~got.contains_qualified.ret

\* C14: a step of parse() is taken only while no exception was thrown; the
\* step in which an exception is thrown ends parse() without a returned
\* tree, and parse() returns only when no exception was thrown.
C14_FirstErrorAborts ==
    [][/\ pc = "parsing"
       /\ err = ""
       /\ err' # "" <=> pc' = "thrown"
       /\ pc' = "returned" => (err' = "" /\ root' = root)]_vars

\* C14: a = 1, a = 1 were read: parse() threw on the second line, with room
\* for more lines in the stream.
C14_Witness ==
    /\ pc = "thrown"
    /\ err = "Key already present"
    /\ input_ = <<LnA1, LnA1>>
    /\ Len(input_) < MaxLines

\* C15: the line number parse() holds, which an exception carries, is the
\* number of lines read from the stream so far, the lines read inside
\* multi-line strings and arrays included; an exception carries a number
\* from 1 on.
C15_LineNumber ==
    /\ line_number_ = Len(input_)
    /\ pc = "thrown" => line_number_ >= 1

\* C15: b = [1, and a comment line were read, and parse() threw on the
\* third line, read inside the array.
C15_Witness ==
    /\ pc = "thrown"
    /\ input_ = <<LnOpenArray, LnComment, LnA1>>
    /\ err = "Failed to parse value type"
    /\ line_number_ = 3

\* the messages of the exceptions for an empty name in a header
EmptyNameErrors ==
    {"Table name cannot be empty", "Empty component of table name",
     "Table array name cannot be empty", "Empty component of table array name"}

\* C16: a header line with an empty component in its name ([.a], [a..b],
\* [a.], [], and the same between double brackets) makes parse() throw an
\* empty-name exception; it is never accepted.
C16_EmptyComponentFails ==
    [][(Read /\ NewLine \in EmptyComponentLines)
          => (pc' = "thrown" /\ err' \in EmptyNameErrors)]_vars

\* the characters [A-Za-z0-9_-]
BareKeyChars ==
    {"a", "b", "c", "d", "e", "f", "g", "h", "i", "j", "k", "l", "m",
     "n", "o", "p", "q", "r", "s", "t", "u", "v", "w", "x", "y", "z",
     "A", "B", "C", "D", "E", "F", "G", "H", "I", "J", "K", "L", "M",
     "N", "O", "P", "Q", "R", "S", "T", "U", "V", "W", "X", "Y", "Z",
     "0", "1", "2", "3", "4", "5", "6", "7", "8", "9", "_", "-"}

\* the text of the key of a key/value line: what stands before the '=',
\* without the blanks around it
KeyText(l) ==
    LET eq == FindIn(l, 1, End(l), {"="})
        solid == {p \in 1..(eq - 1) : l[p] \notin WS}
    IN  IF solid = {} THEN <<>>
        ELSE Slice(l, Min(solid), (CHOOSE p \in solid : \A q \in solid : q <= p) + 1)

ValidBareKey(k) == k # <<>> /\ \A i \in 1..Len(k) : k[i] \in BareKeyChars

\* C17: a key/value line whose bare key is empty or has a character
\* outside [A-Za-z0-9_-] makes parse() throw; such a key is never accepted.
C17_BareKeyChars ==
    [][(Read /\ IsKeyValueLine(NewLine) /\ ~ValidBareKey(KeyText(NewLine)))
          => pc' = "thrown"]_vars

\* the literal of a line  k = literal
LiteralOf(l) == SubSeq(l, 5, Len(l))

\* the decimal digits of a literal, without its sign, its '_' and its
\* leading zeros
Magnitude(lit) == StripLeadingZeros(SelectSeq(lit, is_number))

Negative(lit) == lit[1] = "-"

\* the literal stands for a number of [-2^63, 2^63 - 1]
InRange(lit) ==
    DigitsLeq(Magnitude(lit), IF Negative(lit) THEN INT64_MIN_MAG ELSE INT64_MAX)

\* C18: a line that binds a new key to an integer literal binds it to the
\* int64_t of exactly the literal's value when that value is in
\* [-2^63, 2^63 - 1]; otherwise parse() throws the malformed-number
\* exception and binds nothing.
C18_IntegerRange ==
    [][(Read /\ NewLine \in IntLines /\ ~contains(root, KeyOf(NewLine)))
          => IF InRange(LiteralOf(NewLine))
             THEN /\ pc' = "parsing"
                  /\ contains(root', KeyOf(NewLine))
                  /\ get(root', KeyOf(NewLine))
                       = Value("int64_t", IntData(Negative(LiteralOf(NewLine)),
                                                  Magnitude(LiteralOf(NewLine))))
             ELSE /\ pc' = "thrown"
                  /\ err' = "Malformed number (out of range)"
                  /\ root' = root]_vars

\* C18: a is bound to 2^63 - 1, and parse() threw on b = 9999999999999999999.
C18_Witness ==
    /\ pc = "thrown"
    /\ err = "Malformed number (out of range)"
    /\ input_ = <<<<"a", " ", "=", " ">> \o LitMax, <<"b", " ", "=", " ">> \o LitNines>>
    /\ root = insert(EmptyTable, KeyA, Value("int64_t", IntData(FALSE, INT64_MAX)))

\* the value the text e of a scalar is parsed to on its own
ScalarOf(e) == parse_value(Cursor(<<>>, e, 0, 1)).v

\* C19: for every scalar kind (string, integer, float, boolean, datetime;
\* a float being a number with '.', 'e' or 'E'), a line that binds a new
\* key to an array literal of two valid values of that kind is accepted
\* and binds the key to the Array of exactly those values, in order.
C19_ScalarArrays ==
    [][\A K \in ScalarKinds : \A e1 \in K, e2 \in K :
          (Read /\ NewLine = ArrayLine(e1, e2, <<>>) /\ ~contains(Current, KeyA))
             => /\ pc' = "parsing"
                /\ contains(Deref(root', curr_table'), KeyA)
                /\ get(Deref(root', curr_table'), KeyA)
                     = Array(<<ScalarOf(e1), ScalarOf(e2)>>)]_vars

\* path leads from the Table node to a Table of the tree below it
RECURSIVE InTree(_, _)
InTree(node, path) ==
    /\ is_table(node)
    /\ \/ path = <<>>
       \/ /\ path[1][1] \in DOMAIN node.map_
          /\ LET b == node.map_[path[1][1]]
                 idx == path[1][2]
             IN  IF idx = 0 THEN InTree(b, Tail(path))
                 ELSE /\ is_table_array(b)
                      /\ idx \in 1..Len(b.array_)
                      /\ InTree(b.array_[idx], Tail(path))

\* the path from the root along the parts of a header's name
PathOf(parts) == [i \in 1..Len(parts) |-> <<parts[i], 0>>]

\* C20: while parse() runs, the current table is a Table of the tree; an
\* accepted header leaves it at the table its name leads to from the root;
\* an accepted key/value line binds its key in the current table, changes
\* no other table and leaves the current table where it was; a blank line
\* and a comment line change neither the tree nor the current table.
C20_CurrentTable ==
    [][/\ pc' # "thrown" => InTree(root', curr_table')
       /\ (Read /\ NewLine \in TableHeaders /\ pc' = "parsing")
             => curr_table' = PathOf(HeaderParts(NewLine))
       /\ (Read /\ NewLine \notin {LnBlank, LnComment} /\ IsKeyValueLine(NewLine)
                /\ pc' = "parsing")
             => /\ curr_table' = curr_table
                /\ contains(Deref(root', curr_table), KeyOf(NewLine))
                /\ ~contains(Current, KeyOf(NewLine))
                /\ root' = Store(root, curr_table, Deref(root', curr_table))
       /\ (Read /\ NewLine \in {LnBlank, LnComment})
             => /\ root' = root
                /\ curr_table' = curr_table
                /\ pc' = "parsing"]_vars

\* C20: [a], a blank line, [a.b] and b = 2 were read: the header [a.b] was
\* resolved from the root and the key went into the table a.b.
C20_Witness ==
    /\ pc = "parsing"
    /\ input_ = <<LnTableA, LnBlank, LnTableAB, LnB2>>
    /\ curr_table = <<<<KeyA, 0>>, <<KeyB, 0>>>>
    /\ contains(Deref(root, curr_table), KeyB)
    /\ ~contains(root, KeyB)

\* a part before the last of the name parts stands for a scalar or an array
PrefixIsValueOrArray(node, parts) ==
    \E n \in 1..(Len(parts) - 1) :
       Resolve(node, SubSeq(parts, 1, n)).kind \in {"value", "array"}

\* C21: a header [p] whose last part names an entry that is a scalar, an
\* array or a TableArray, or one of whose earlier parts names a scalar or
\* an array, fails with "Key already exists as a value".
C21_KeyConflict ==
    [][(/\ Read
        /\ NewLine \in TableHeaders
        /\ \/ Resolve(root, HeaderParts(NewLine)).kind \in {"value", "array", "table_array"}
           \/ PrefixIsValueOrArray(root, HeaderParts(NewLine)))
       => (pc' = "thrown" /\ err' = "Key already exists as a value")]_vars

\* every '_' of the token stands directly between two digits
WellPlaced(tok) ==
    \A i \in 1..Len(tok) :
       tok[i] = "_" => /\ 1 < i /\ i < Len(tok)
                       /\ is_number(tok[i - 1]) /\ is_number(tok[i + 1])

IsFloatToken(tok) == \E i \in 1..Len(tok) : tok[i] \in {".", "e", "E"}

\* the line a = tok was accepted and bound a to the value of tok without its
\* '_', a double iff tok has '.', 'e' or 'E'
BoundWithoutUnderscores(tok) ==
    /\ pc' = "parsing"
    /\ contains(Deref(root', curr_table'), KeyA)
    /\ get(Deref(root', curr_table'), KeyA) = ScalarOf(RemoveUnderscores(tok))
    /\ get(Deref(root', curr_table'), KeyA).type
         = IF IsFloatToken(tok) THEN "double" ELSE "int64_t"

\* C22 as stated: a line that binds a new key to a number token with a '_'
\* that is not between two digits throws "Malformed number"; a token whose
\* '_' are all between digits yields the value of the token without them.
C22_UnderscoreMalformed ==
    [][\A tok \in NumberTokens :
          (Read /\ NewLine = NumberLine(tok) /\ ~contains(Current, KeyA))
             => IF WellPlaced(tok) THEN BoundWithoutUnderscores(tok)
                ELSE pc' = "thrown" /\ err' = "Malformed number"]_vars

\* C22: a number token with a '_' that is not between two digits is never
\* accepted: it throws "Malformed number", and "Failed to parse value type"
\* when the '_' is its first character; a token whose '_' are all between
\* digits yields the value of the token without them, a double iff it has
\* '.', 'e' or 'E'.
C22_UnderscoreRejected ==
    [][\A tok \in NumberTokens :
          (Read /\ NewLine = NumberLine(tok) /\ ~contains(Current, KeyA))
             => IF WellPlaced(tok) THEN BoundWithoutUnderscores(tok)
                ELSE /\ pc' = "thrown"
                     /\ err' = IF tok[1] = "_" THEN "Failed to parse value type"
                               ELSE "Malformed number"
                     /\ root' = root]_vars

\* C22: a = 1_0.5_0e1_0 was read below [a] and bound a to 10.50e10, and
\* a = 1_ threw below [a.b].
C22_Witness ==
    /\ pc = "thrown"
    /\ err = "Malformed number"
    /\ input_ = <<LnTableA, NumberLine(TokFloat), LnTableAB, NumberLine(TokTrailing)>>
    /\ get(get(root, KeyA), KeyA)
         = Value("double", [neg |-> FALSE, digits |-> <<"1", "0", "5">>, exp |-> 9])

\* the lines the step read
NewLines == SubSeq(input_', Len(input_) + 1, Len(input_'))

\* the lines ls with a line break after each
RECURSIVE WithBreaks(_)
WithBreaks(ls) ==
    IF ls = <<>> THEN <<>> ELSE Head(ls) \o <<"\n">> \o WithBreaks(Tail(ls))

\* the text between the delimiters of a multi-line string that opens on the
\* first of the lines ls (s = """...) and closes at the end of the last
\* (..."""), the line break directly after the opening delimiter left out
Between(ls) ==
    LET first == SubSeq(ls[1], 8, Len(ls[1]))
        last == SubSeq(ls[Len(ls)], 1, Len(ls[Len(ls)]) - 3)
        middle == SubSeq(ls, 2, Len(ls) - 1)
    IN  (IF first = <<>> THEN <<>> ELSE first \o <<"\n">>)
           \o WithBreaks(middle) \o last

\* C23: an accepted multi-line basic string without backslashes has, for
\* every line break between its delimiters, a newline in its value, except
\* for the line break directly after the opening delimiter.
C23_LineBreaksKept ==
    [][(Read /\ NewLine \in {LnOpenString, LnOpenStringBare} /\ pc' = "parsing")
          => get(Deref(root', curr_table'), <<"s">>)
               = Value("string", Between(NewLines))]_vars

\* the line binds a key of one character to an array literal
IsArrayLine(l) == Len(l) >= 5 /\ l[1] # "[" /\ l[5] = "["

\* C24: when a line that binds a key to an array literal is accepted, the
\* text read for it ends with the closing ']' of the literal (the array
\* literals of these documents have no comment and no blank after them).
C24_ArrayClosed ==
    [][(Read /\ IsArrayLine(NewLine) /\ pc' = "parsing")
          => Last(Last(NewLines)) = "]"]_vars

\* parse() of the one-line document  a = v
TopLevel(v) == parse(<<<<"a", " ", "=", " ">> \o v>>)

\* the line b = {a = v ...} is accepted exactly when top, the parse of
\* a = v, succeeded, and then a is bound in b as it is in top's tree
SameAsTopLevel(top) ==
    /\ pc' = "parsing" <=> top.c.err = ""
    /\ pc' = "parsing"
         => /\ contains(get(Deref(root', curr_table'), KeyB), KeyA)
            /\ get(get(Deref(root', curr_table'), KeyB), KeyA) = get(top.root, KeyA)

\* C25: a pair a = v in an inline table, followed by '}', by a blank or by
\* ',', is accepted exactly when the line a = v is accepted in an empty
\* document, and binds a to the same node.
C25_PairLikeTopLevel ==
    [][\A v \in PairValues, f \in PairFollowers :
          (Read /\ NewLine = PairLine(v, f) /\ ~contains(Current, KeyB))
             => SameAsTopLevel(TopLevel(v))]_vars

\* r is the result of a parse() that threw nothing and bound every key of
\* table t to the node t binds it to
ReadBack(r, t) ==
    /\ r.c.err = ""
    /\ \A k \in DOMAIN t.map_ : contains(r.root, k) /\ get(r.root, k) = get(t, k)

\* C26: the text printed for a tree of datetimes is parsed back to the same
\* datetimes: year, month, day, hour, minute, second, microsecond,
\* hour_offset and minute_offset are those of the datetime printed.
C26_DatetimeRoundTrip ==
    pc = "printed" => ReadBack(parse(SplitLines(out)), root)

\* every entry of table old is an entry of table new: a scalar and an array
\* as they were, a Table with every entry it had, a TableArray with every
\* element it had, in the same place
RECURSIVE Grows(_, _)
Grows(old, new) ==
    /\ is_table(new)
    /\ \A k \in DOMAIN old.map_ :
          /\ k \in DOMAIN new.map_
          /\ LET o == old.map_[k]
                 n == new.map_[k]
             IN  IF is_table(o) THEN Grows(o, n)
                 ELSE IF is_table_array(o)
                 THEN /\ is_table_array(n)
                      /\ Len(n.array_) >= Len(o.array_)
                      /\ \A i \in 1..Len(o.array_) : Grows(o.array_[i], n.array_[i])
                 ELSE n = o

\* C27: an accepted line removes, replaces and retypes nothing: every entry
\* of every Table is still there after it, and every TableArray has the
\* elements it had, in their order.
C27_TreeOnlyGrows ==
    [][(Read /\ pc' = "parsing") => Grows(root, root')]_vars

\* C27: [a], a = 1, [a.b], b = 2 were read: the Table a holds the key of the
\* second line next to the Table of the third, which holds the key of the
\* fourth.
C27_Witness ==
    /\ pc = "parsing"
    /\ input_ = <<LnTableA, LnA1, LnTableAB, LnB2>>
    /\ is_value(get(get(root, KeyA), KeyA))
    /\ is_value(get(get(get(root, KeyA), KeyB), KeyB))

\* every TableArray of the tree below b holds a Table
RECURSIVE NoEmptyTableArray(_)
NoEmptyTableArray(b) ==
    IF is_table(b) THEN \A k \in DOMAIN b.map_ : NoEmptyTableArray(b.map_[k])
    ELSE IF is_table_array(b)
    THEN /\ b.array_ # <<>>
         /\ \A i \in 1..Len(b.array_) : is_table(b.array_[i]) /\ NoEmptyTableArray(b.array_[i])
    ELSE IF is_array(b)
    THEN \A i \in 1..Len(b.values_) : NoEmptyTableArray(b.values_[i])
    ELSE TRUE

\* C28: at every point of a parse, every TableArray of the tree, made by a
\* header [[p]] or by an array of inline tables, holds at least one Table,
\* and no descent into the last element of a TableArray was undefined.
C28_TableArraysNonEmpty ==
    /\ NoEmptyTableArray(root)
    /\ err # ErrUndefined

\* C28: a = [{b = 1}], [[a]], [a.b] and b = 2 were read: the header [[a]]
\* appended a Table to the array of inline tables, and the header [a.b]
\* went down into it.
C28_Witness ==
    /\ pc = "parsing"
    /\ input_ = <<LnInlineArrayA, LnArrayA, LnTableAB, LnB2>>
    /\ Len(get(root, KeyA).array_) = 2
    /\ curr_table = <<<<KeyA, 2>>, <<KeyB, 0>>>>
    /\ contains(Current, KeyB)

\* the text of a line without its comment and the blanks before it
Uncommented(l) ==
    LET hash == FindIn(l, 1, End(l), {"#"})
        solid == {p \in 1..(hash - 1) : l[p] \notin WS}
    IN  IF solid = {} THEN <<>>
        ELSE SubSeq(l, 1, CHOOSE p \in solid : \A q \in solid : q <= p)

\* the header line l ends with its closing brackets, ']' for [p] and ']]'
\* for [[p]], and has no other ']'
ProperlyClosed(l) ==
    LET t == Uncommented(l)
        n == IF Len(t) >= 2 /\ t[2] = "[" THEN 2 ELSE 1
    IN  /\ Len(t) > 2 * n
        /\ \A i \in 1..Len(t) : t[i] = "]" <=> i > Len(t) - n

\* C29: a header line is accepted only if it ends with ']' (a Table
\* header) or with ']]' (a TableArray header), followed by blanks or a
\* comment only.
C29_HeaderClosed ==
    [][(Read /\ NewLine # <<>> /\ NewLine[1] = "[" /\ pc' = "parsing")
          => ProperlyClosed(NewLine)]_vars

\* the Table a header with the name parts reopens: the Table the parts
\* stand for, or the last Table of the TableArray they stand for
Reopened(node, parts) ==
    LET n == Resolve(node, parts)
    IN  IF is_table_array(n) THEN Last(n.array_) ELSE n

HoldsScalar(t) == \E k \in DOMAIN t.map_ : is_value(t.map_[k])

\* C30: a header [p] whose name stands for a Table that exists is accepted
\* exactly when that Table is not empty and holds no scalar; when the Table
\* is empty the header fails with "Redefinition of table" like when it
\* holds a scalar.
C30_EmptyTableRedefines ==
    [][(/\ Read
        /\ NewLine \in TableHeaders
        /\ Resolve(root, HeaderParts(NewLine)).kind \in {"table", "table_array"})
       => /\ pc' = "parsing"
               <=> /\ ~empty(Reopened(root, HeaderParts(NewLine)))
                   /\ ~HoldsScalar(Reopened(root, HeaderParts(NewLine)))
          /\ pc' = "thrown" => (err' = "Redefinition of table" /\ root' = root)]_vars

\* C30: [[a]] and [a] were read: parse() threw on the header that names the
\* last Table of a, which is empty.
C30_Witness ==
    /\ pc = "thrown"
    /\ err = "Redefinition of table"
    /\ input_ = <<LnArrayA, LnTableA>>
    /\ get(root, KeyA) = TableArray(<<EmptyTable>>)

====
